---------------------------- MODULE Spec2Model ----------------------------
(***************************************************************************)
(* A model of mdslw's sentence-boundary detection and rewrap pipeline:     *)
(* the whitespace classifier and break detector (detect.rs), the line      *)
(* breaker (linebreak.rs), the greedy wrapper (wrap.rs), the classifier    *)
(* of markdown events and the merging of its ranges (parse.rs, ignore.rs)  *)
(* and the filling of the gaps between ranges (ranges.rs).                 *)
(*                                                                         *)
(* A Rust char is modelled as a string token: an ASCII character is the    *)
(* one-character string of itself, a non-ASCII character is a named token  *)
(* ("nbsp" is U+00A0, "eacute" is U+00E9, ...).  A Rust String or          *)
(* Vec<char> is a sequence of such tokens.  Rust indices are 0-based; the  *)
(* operator At converts.  An Option<&char> is a sequence of length 0       *)
(* (None) or 1 (Some).                                                     *)
(***************************************************************************)
EXTENDS Integers, Sequences, FiniteSets, TLC

VARIABLES
    pc,         \* which operation of the component under analysis ran last
    detector,   \* the BreakDetector built by BreakDetector::new
    query,      \* arguments and result of the last detector query
    lb,         \* the line breaker's text, merged text, sentence ends, output
    wr,         \* the greedy wrapper's arguments and the lines it returned
    doc         \* a document, its ranges or events, and what became of them

vars == <<pc, detector, query, lb, wr, doc>>

(***************************************************************************)
(* Characters: the std methods of char the program calls.                  *)
(***************************************************************************)
UpperSeq ==
    <<"A", "B", "C", "D", "E", "F", "G", "H", "I", "J", "K", "L", "M",
      "N", "O", "P", "Q", "R", "S", "T", "U", "V", "W", "X", "Y", "Z">>

LowerSeq ==
    <<"a", "b", "c", "d", "e", "f", "g", "h", "i", "j", "k", "l", "m",
      "n", "o", "p", "q", "r", "s", "t", "u", "v", "w", "x", "y", "z">>

AsciiUpper == {UpperSeq[i] : i \in 1..Len(UpperSeq)}
AsciiLower == {LowerSeq[i] : i \in 1..Len(LowerSeq)}

\* U+00A0, U+202F, U+FEFF, U+00C9, U+00E9, U+0130, U+0307
NonAscii == {"nbsp", "nnbsp", "zwnbsp", "Eacute", "eacute", "Idot", "dotabove"}

\* char::is_whitespace: the Unicode White_Space property
char_is_whitespace(ch) == ch \in {" ", "\n", "\t", "nbsp", "nnbsp"}

\* char::is_alphanumeric
is_alphanumeric(ch) ==
    ch \in AsciiUpper \cup AsciiLower \cup {"Eacute", "eacute", "Idot"}

\* char::to_lowercase: one character may map to several
to_lowercase(ch) ==
    IF ch \in AsciiUpper
    THEN <<LowerSeq[CHOOSE i \in 1..Len(UpperSeq) : UpperSeq[i] = ch]>>
    ELSE IF ch = "Eacute" THEN <<"eacute">>
    ELSE IF ch = "Idot" THEN <<"i", "dotabove">>
    ELSE <<ch>>

\* char::len_utf8
len_utf8(ch) ==
    IF ch \in {"nnbsp", "zwnbsp"} THEN 3
    ELSE IF ch \in NonAscii THEN 2
    ELSE 1

At(s, i) == s[i + 1]

Min(a, b) == IF a <= b THEN a ELSE b

SeqSet(s) == {s[i] : i \in 1..Len(s)}

\* str::len: the length in bytes
RECURSIVE str_len(_)
str_len(s) == IF s = <<>> THEN 0 ELSE len_utf8(Head(s)) + str_len(Tail(s))

\* str::to_lowercase
RECURSIVE str_to_lowercase(_)
str_to_lowercase(s) ==
    IF s = <<>> THEN <<>> ELSE to_lowercase(Head(s)) \o str_to_lowercase(Tail(s))

\* str::split_whitespace: the maximal runs of non-whitespace characters
RECURSIVE split_ws(_, _)
split_ws(s, cur) ==
    IF s = <<>>
    THEN IF cur = <<>> THEN <<>> ELSE <<cur>>
    ELSE IF char_is_whitespace(Head(s))
         THEN (IF cur = <<>> THEN <<>> ELSE <<cur>>) \o split_ws(Tail(s), <<>>)
         ELSE split_ws(Tail(s), Append(cur, Head(s)))

split_whitespace(s) == split_ws(s, <<>>)

(***************************************************************************)
(* detect.rs: WhitespaceDetector                                           *)
(***************************************************************************)
WhitespaceDetector_new(keep_non_breaking_spaces) ==
    [nbsp |-> IF keep_non_breaking_spaces
              THEN <<"nbsp", "nnbsp", "zwnbsp">>
              ELSE <<>>]

WhitespaceDetector_is_whitespace(self, ch) ==
    char_is_whitespace(ch) /\ ch \notin SeqSet(self.nbsp)

(***************************************************************************)
(* detect.rs: BreakDetector                                                *)
(***************************************************************************)
BreakCfg == [breaking_multiple_markers : BOOLEAN,
             breaking_start_marker : BOOLEAN,
             breaking_nbsp : BOOLEAN]

\* the pair (word, word.len() - 1) stored for a keep word
KeepEntry(el) == <<el, str_len(el) - 1>>

\* BreakDetector::new with the ignores left in the casing they were given in
BreakDetector_new_uncased_ignores(keep_words, keep_word_ignores, keep_words_preserve_case, end_markers, break_cfg) ==
    LET cased_words == IF keep_words_preserve_case
                       THEN keep_words ELSE str_to_lowercase(keep_words)
        ignores     == SeqSet(split_whitespace(keep_word_ignores))
    IN  [keep_words_preserve_case |-> keep_words_preserve_case,
         keep_words |-> {KeepEntry(el) :
                            el \in SeqSet(split_whitespace(cased_words)) \ ignores},
         end_markers |-> end_markers,
         break_multiple_markers |-> break_cfg.breaking_multiple_markers,
         break_start_markers |-> break_cfg.breaking_start_marker,
         whitespace |-> WhitespaceDetector_new(~break_cfg.breaking_nbsp)]

BreakDetector_new(keep_words, keep_word_ignores, keep_words_preserve_case, end_markers, break_cfg) ==
    LET cased_words   == IF keep_words_preserve_case
                         THEN keep_words ELSE str_to_lowercase(keep_words)
        cased_ignores == IF keep_words_preserve_case
                         THEN keep_word_ignores
                         ELSE str_to_lowercase(keep_word_ignores)
        ignores       == SeqSet(split_whitespace(cased_ignores))
    IN  [keep_words_preserve_case |-> keep_words_preserve_case,
         keep_words |-> {KeepEntry(el) :
                            el \in SeqSet(split_whitespace(cased_words)) \ ignores},
         end_markers |-> end_markers,
         break_multiple_markers |-> break_cfg.breaking_multiple_markers,
         break_start_markers |-> break_cfg.breaking_start_marker,
         whitespace |-> WhitespaceDetector_new(~break_cfg.breaking_nbsp)]

\* the flat_map of ends_with_keep_word: the compared characters, case-folded
RECURSIVE fold_case(_, _)
fold_case(s, preserve_case) ==
    IF s = <<>> THEN <<>>
    ELSE (IF preserve_case THEN <<Head(s)>> ELSE to_lowercase(Head(s)))
         \o fold_case(Tail(s), preserve_case)

\* Iterator::zip(..).all(|(ch1, ch2)| ch1 == ch2): stops at the shorter one
zip_all_eq(a, b) == \A i \in 1..Min(Len(a), Len(b)) : a[i] = b[i]

\* whether one keep word (el, disp) matches text at idx (the closure of any)
keep_word_matches(self, text, idx, el, disp) ==
    /\ idx >= disp
    /\ (idx = disp \/ ~is_alphanumeric(At(text, idx - disp - 1)))
    /\ zip_all_eq(fold_case(SubSeq(text, idx - disp + 1, idx + 1),
                            self.keep_words_preserve_case),
                  el)

ends_with_keep_word(self, text, idx) ==
    IF idx < Len(text)
    THEN \E kw \in self.keep_words : keep_word_matches(self, text, idx, kw[1], kw[2])
    ELSE FALSE

is_marker(ch, markers) == IF ch = <<>> THEN FALSE ELSE ch[1] \in SeqSet(markers)

is_start(ch) == ch = <<>> \/ ch = <<"\n">>

is_whitespace(ch) == IF ch = <<>> THEN FALSE ELSE char_is_whitespace(ch[1])

\* is_breaking_marker without the check for the start of a line
is_breaking_marker_no_start_check(self, prev, ch, next) ==
    /\ ch \in SeqSet(self.end_markers)
    /\ is_whitespace(next)
    /\ (self.break_multiple_markers \/ ~is_marker(prev, self.end_markers))

is_breaking_marker(self, prev, ch, next) ==
    /\ ch \in SeqSet(self.end_markers)
    /\ is_whitespace(next)
    /\ (self.break_multiple_markers \/ ~is_marker(prev, self.end_markers))
    /\ (self.break_start_markers \/ ~is_start(prev))

(***************************************************************************)
(* linebreak.rs: the line breaker                                          *)
(***************************************************************************)
\* the filter_map closure of merge_all_whitespace and its captured flag
RECURSIVE merge_ws(_, _, _)
merge_ws(text, ws, last_was_whitespace) ==
    IF text = <<>> THEN <<>>
    ELSE IF WhitespaceDetector_is_whitespace(ws, Head(text))
         THEN IF last_was_whitespace
              THEN merge_ws(Tail(text), ws, TRUE)
              ELSE <<" ">> \o merge_ws(Tail(text), ws, TRUE)
         ELSE <<Head(text)>> \o merge_ws(Tail(text), ws, FALSE)

\* merge_all_whitespace keeping the first whitespace character of a run as
\* it is instead of replacing it by a space
RECURSIVE merge_ws_keeping_char(_, _, _)
merge_ws_keeping_char(text, ws, last_was_whitespace) ==
    IF text = <<>> THEN <<>>
    ELSE IF WhitespaceDetector_is_whitespace(ws, Head(text))
         THEN IF last_was_whitespace
              THEN merge_ws_keeping_char(Tail(text), ws, TRUE)
              ELSE <<Head(text)>> \o merge_ws_keeping_char(Tail(text), ws, TRUE)
         ELSE <<Head(text)>> \o merge_ws_keeping_char(Tail(text), ws, FALSE)

merge_all_whitespace_keeping_char(text, ws) == merge_ws_keeping_char(text, ws, FALSE)

merge_all_whitespace(text, ws) == merge_ws(text, ws, FALSE)

\* enum Char
Skip(idx) == <<"Skip", idx>>
Split(idx) == <<"Split", idx>>

\* Vec::get on a 0-based index (None when out of range)
Get(s, i) == IF 0 <= i /\ i < Len(s) THEN <<At(s, i)>> ELSE <<>>

\* the filter_map closure of find_sentence_ends, for the indices from idx on
RECURSIVE sentence_ends_from(_, _, _)
sentence_ends_from(as_chars, self, idx) ==
    IF idx >= Len(as_chars) THEN {}
    ELSE LET ch   == At(as_chars, idx)
             next == Get(as_chars, idx + 1)
             prev == IF idx = 0 THEN <<>> ELSE Get(as_chars, idx - 1)
         IN  (IF is_breaking_marker(self, prev, ch, next)
                 /\ ~ends_with_keep_word(self, as_chars, idx)
              THEN {Skip(idx + 1), Split(idx + 2)}
              ELSE {})
             \cup sentence_ends_from(as_chars, self, idx + 1)

\* find_sentence_ends without the keep-word check
find_sentence_ends_without_keep_words(text, self) ==
    sentence_ends_from(text, [self EXCEPT !.keep_words = {}], 0)

find_sentence_ends(text, self) == sentence_ends_from(text, self, 0)

\* the filter_map closure of insert_linebreaks_between_sentences, from idx on
RECURSIVE rebuild_from(_, _, _, _)
rebuild_from(merged, sentence_ends, indent, idx) ==
    IF idx >= Len(merged) THEN <<>>
    ELSE (IF Skip(idx) \in sentence_ends THEN <<>>
          ELSE IF Split(idx) \in sentence_ends
               THEN <<"\n">> \o indent \o <<At(merged, idx)>>
               ELSE <<At(merged, idx)>>)
         \o rebuild_from(merged, sentence_ends, indent, idx + 1)

(***************************************************************************)
(* wrap.rs: the greedy wrapper                                             *)
(***************************************************************************)
\* WhitespaceDetector::split_whitespace: the maximal runs of characters the
\* detector does not classify as whitespace
RECURSIVE detector_split_ws(_, _, _)
detector_split_ws(self, s, cur) ==
    IF s = <<>>
    THEN IF cur = <<>> THEN <<>> ELSE <<cur>>
    ELSE IF WhitespaceDetector_is_whitespace(self, Head(s))
         THEN (IF cur = <<>> THEN <<>> ELSE <<cur>>)
              \o detector_split_ws(self, Tail(s), <<>>)
         ELSE detector_split_ws(self, Tail(s), Append(cur, Head(s)))

WhitespaceDetector_split_whitespace(self, s) == detector_split_ws(self, s, <<>>)

\* Option<usize>::unwrap_or
unwrap_or(opt, default) == IF opt = <<>> THEN default ELSE opt[1]

\* the wrap loop without the test for a width of 0 (no wrapping)
RECURSIVE wrap_words_always_bounded(_, _, _, _, _, _)
wrap_words_always_bounded(words, width, indent, lines, line, line_len) ==
    IF words = <<>> THEN Append(lines, line)
    ELSE LET word  == Head(words)
             chars == Len(word)
         IN  IF line_len + 1 + chars <= width
             THEN wrap_words_always_bounded(Tail(words), width, indent, lines,
                                            line \o <<" ">> \o word,
                                            line_len + chars + 1)
             ELSE wrap_words_always_bounded(Tail(words), width, indent,
                                            Append(lines, line),
                                            indent \o word, Len(indent \o word))

\* the wrap loop measuring a word by its length in bytes
RECURSIVE wrap_words_counting_bytes(_, _, _, _, _, _)
wrap_words_counting_bytes(words, width, indent, lines, line, line_len) ==
    IF words = <<>> THEN Append(lines, line)
    ELSE LET word  == Head(words)
             chars == str_len(word)
         IN  IF width = 0 \/ line_len + 1 + chars <= width
             THEN wrap_words_counting_bytes(Tail(words), width, indent, lines,
                                            line \o <<" ">> \o word,
                                            line_len + chars + 1)
             ELSE wrap_words_counting_bytes(Tail(words), width, indent,
                                            Append(lines, line),
                                            indent \o word, str_len(indent \o word))

\* the wrap loop fitting a word without the space in front of it
RECURSIVE wrap_words_forgetting_space(_, _, _, _, _, _)
wrap_words_forgetting_space(words, width, indent, lines, line, line_len) ==
    IF words = <<>> THEN Append(lines, line)
    ELSE LET word  == Head(words)
             chars == Len(word)
         IN  IF width = 0 \/ line_len + chars <= width
             THEN wrap_words_forgetting_space(Tail(words), width, indent, lines,
                                              line \o <<" ">> \o word,
                                              line_len + chars + 1)
             ELSE wrap_words_forgetting_space(Tail(words), width, indent,
                                              Append(lines, line),
                                              indent \o word, Len(indent \o word))

\* the wrap loop starting a new line without pushing the full one
RECURSIVE wrap_words_losing_line(_, _, _, _, _, _)
wrap_words_losing_line(words, width, indent, lines, line, line_len) ==
    IF words = <<>> THEN Append(lines, line)
    ELSE LET word  == Head(words)
             chars == Len(word)
         IN  IF width = 0 \/ line_len + 1 + chars <= width
             THEN wrap_words_losing_line(Tail(words), width, indent, lines,
                                         line \o <<" ">> \o word,
                                         line_len + chars + 1)
             ELSE wrap_words_losing_line(Tail(words), width, indent, lines,
                                         indent \o word, Len(indent \o word))

\* the wrap loop starting a continuation line without the indent
RECURSIVE wrap_words_without_indent(_, _, _, _, _, _)
wrap_words_without_indent(words, width, indent, lines, line, line_len) ==
    IF words = <<>> THEN Append(lines, line)
    ELSE LET word  == Head(words)
             chars == Len(word)
         IN  IF width = 0 \/ line_len + 1 + chars <= width
             THEN wrap_words_without_indent(Tail(words), width, indent, lines,
                                            line \o <<" ">> \o word,
                                            line_len + chars + 1)
             ELSE wrap_words_without_indent(Tail(words), width, indent,
                                            Append(lines, line), word, Len(word))

\* the for loop of wrap_long_line_and_collapse_inline_whitespace over the
\* remaining words, and the final push
RECURSIVE wrap_words(_, _, _, _, _, _)
wrap_words(words, width, indent, lines, line, line_len) ==
    IF words = <<>> THEN Append(lines, line)
    ELSE LET word  == Head(words)
             chars == Len(word)
         IN  IF width = 0 \/ line_len + 1 + chars <= width
             THEN wrap_words(Tail(words), width, indent, lines,
                             line \o <<" ">> \o word, line_len + chars + 1)
             ELSE wrap_words(Tail(words), width, indent, Append(lines, line),
                             indent \o word, Len(indent \o word))

wrap_long_line_and_collapse_inline_whitespace(sentence, sentence_idx, max_width, indent, ws) ==
    LET words == SelectSeq(WhitespaceDetector_split_whitespace(ws, sentence),
                           LAMBDA el : el # <<>>)
        first == IF words # <<>>
                 THEN IF sentence_idx = 0
                      THEN <<Head(words), Len(indent)>>
                      ELSE <<indent \o Head(words), 0>>
                 ELSE << <<>>, 0 >>
        line  == first[1]
        first_indent_len == first[2]
        line_len == Len(line) + first_indent_len
        width == unwrap_or(max_width, 0)
    IN  wrap_words(IF words = <<>> THEN <<>> ELSE Tail(words), width, indent,
                   <<>>, line, line_len)

(***************************************************************************)
(* wrap.rs: add_linebreaks_and_wrap.  A CharRange is a record of the byte  *)
(* offsets start and end; a WrapType is <<"Verbatim">> or <<"Indent", n>>. *)
(***************************************************************************)
\* &text[range] is slice_from(text, range, 0): the characters whose bytes lie
\* in range; pos is the byte offset of the first character of text
RECURSIVE slice_from(_, _, _)
slice_from(text, range, pos) ==
    IF text = <<>> THEN <<>>
    ELSE (IF range.start <= pos /\ pos < range.end THEN <<Head(text)>> ELSE <<>>)
         \o slice_from(Tail(text), range, pos + len_utf8(Head(text)))

\* str::split(ch) is split_on(s, ch, <<>>): the pieces between the
\* occurrences of ch
RECURSIVE split_on(_, _, _)
split_on(s, ch, cur) ==
    IF s = <<>> THEN <<cur>>
    ELSE IF Head(s) = ch
         THEN <<cur>> \o split_on(Tail(s), ch, <<>>)
         ELSE split_on(Tail(s), ch, Append(cur, Head(s)))

\* [String]::join
RECURSIVE join(_, _)
join(strs, sep) ==
    IF strs = <<>> THEN <<>>
    ELSE IF Len(strs) = 1 THEN Head(strs)
    ELSE Head(strs) \o sep \o join(Tail(strs), sep)

\* str::trim_end
RECURSIVE trim_end(_)
trim_end(s) ==
    IF s # <<>> /\ char_is_whitespace(s[Len(s)])
    THEN trim_end(SubSeq(s, 1, Len(s) - 1))
    ELSE s

\* indent::build_indent: num spaces
build_indent(num) == [i \in 1..num |-> " "]

\* linebreak::insert_linebreaks_after_sentence_ends: the line breaker, which
\* leaves the indent to the wrapper
insert_linebreaks_after_sentence_ends(text, detector_) ==
    LET merged == merge_all_whitespace(text, detector_.whitespace)
    IN  rebuild_from(merged, find_sentence_ends(merged, detector_), <<>>, 0)

\* the enumerate().flat_map(..) over the sentences, from sentence idx on
RECURSIVE wrap_sentences(_, _, _, _, _)
wrap_sentences(sentences, idx, max_width, indent, ws) ==
    IF sentences = <<>> THEN <<>>
    ELSE wrap_long_line_and_collapse_inline_whitespace(
             Head(sentences), idx, max_width, indent, ws)
         \o wrap_sentences(Tail(sentences), idx + 1, max_width, indent, ws)

\* what one iteration of the loop would push with every range trimmed
range_output_trimmed(range, max_width, detector_, text) ==
    IF range.wrap[1] = "Indent"
    THEN LET indent == build_indent(range.wrap[2])
             broken == insert_linebreaks_after_sentence_ends(
                           slice_from(text, range.range, 0), detector_)
         IN  trim_end(join(wrap_sentences(split_on(broken, "\n", <<>>), 0, max_width,
                                          indent, detector_.whitespace),
                           <<"\n">>))
    ELSE trim_end(slice_from(text, range.range, 0))

\* what one iteration of the loop of add_linebreaks_and_wrap pushes
range_output(range, max_width, detector_, text) ==
    IF range.wrap[1] = "Indent"
    THEN LET indent == build_indent(range.wrap[2])
             broken == insert_linebreaks_after_sentence_ends(
                           slice_from(text, range.range, 0), detector_)
         IN  join(wrap_sentences(split_on(broken, "\n", <<>>), 0, max_width, indent,
                                 detector_.whitespace),
                  <<"\n">>)
    ELSE slice_from(text, range.range, 0)

\* the loop of add_linebreaks_and_wrap over the remaining ranges
RECURSIVE push_ranges(_, _, _, _, _)
push_ranges(ranges, max_width, detector_, text, result) ==
    IF ranges = <<>> THEN result
    ELSE push_ranges(Tail(ranges), max_width, detector_, text,
                     result \o range_output(Head(ranges), max_width, detector_, text))

add_linebreaks_and_wrap(ranges, max_width, detector_, text) ==
    trim_end(push_ranges(ranges, max_width, detector_, text, <<>>))

(***************************************************************************)
(* parse.rs: merge_ranges and whitespace_indices                           *)
(***************************************************************************)
\* Range<usize>::len
range_len(r) == IF r.start < r.end THEN r.end - r.start ELSE 0

\* the HashMap from the byte offset of every character the detector
\* classifies as whitespace to that character
whitespace_indices(text, detector_) ==
    LET found == {i \in 1..Len(text) : WhitespaceDetector_is_whitespace(detector_, text[i])}
        pos(i) == str_len(SubSeq(text, 1, i - 1))
    IN  [p \in {pos(i) : i \in found} |-> text[CHOOSE i \in found : pos(i) = p]]

\* one iteration of the loop of merge_ranges that extends the accumulated
\* range over any whitespace, whatever the number of linebreaks in it
merge_range_over_blank_lines(next_range, merged, range, whitespaces) ==
    IF next_range = <<>> THEN [next_range |-> <<range>>, merged |-> merged]
    ELSE LET next == next_range[1]
             gap  == next.end..(range.start - 1)
         IN  IF range.start >= next.start /\ range.end <= next.end
             THEN [next_range |-> <<next>>, merged |-> merged]
             ELSE IF \A el \in gap : el \in DOMAIN whitespaces
             THEN [next_range |-> <<[start |-> next.start, end |-> range.end]>>,
                   merged |-> merged]
             ELSE [next_range |-> <<range>>, merged |-> Append(merged, next)]

\* one iteration of the loop of merge_ranges
merge_range(next_range, merged, range, whitespaces) ==
    IF next_range = <<>> THEN [next_range |-> <<range>>, merged |-> merged]
    ELSE LET next == next_range[1]
             gap  == next.end..(range.start - 1)
             contains_just_whitespace == \A el \in gap : el \in DOMAIN whitespaces
             at_most_one_linebreak ==
                 Cardinality({el \in gap : el \in DOMAIN whitespaces
                                           /\ whitespaces[el] = "\n"}) <= 1
             is_contained == range.start >= next.start /\ range.end <= next.end
         IN  IF is_contained
             THEN [next_range |-> <<next>>, merged |-> merged]
             ELSE IF contains_just_whitespace /\ at_most_one_linebreak
             THEN [next_range |-> <<[start |-> next.start, end |-> range.end]>>,
                   merged |-> merged]
             ELSE [next_range |-> <<range>>, merged |-> Append(merged, next)]

\* the end of merge_ranges with the empty ranges removed only
remove_empty_ranges(next_range, merged) ==
    SelectSeq(merged \o next_range, LAMBDA el : range_len(el) > 0)

\* the end of merge_ranges: the last accumulated range is pushed and the
\* ranges of at most one byte are removed
remove_short_ranges(next_range, merged) ==
    SelectSeq(merged \o next_range, LAMBDA el : range_len(el) > 1)

(***************************************************************************)
(* ranges.rs: fill_markdown_ranges.  A TextRange is a record of verbatim,  *)
(* indent_spaces and range.                                                *)
(***************************************************************************)
\* line_ranges: the byte range of every line, its linebreak included; start
\* is the offset of the line being read, pos the offset of the rest
RECURSIVE line_ranges_from(_, _, _)
line_ranges_from(text, start, pos) ==
    IF text = <<>>
    THEN IF start < pos THEN <<[start |-> start, end |-> pos]>> ELSE <<>>
    ELSE LET end == pos + len_utf8(Head(text))
         IN  IF Head(text) = "\n"
             THEN <<[start |-> start, end |-> end]>> \o line_ranges_from(Tail(text), end, end)
             ELSE line_ranges_from(Tail(text), start, end)

\* find_line_start: the start of the first line that contains point
find_line_start(point, line_ranges) ==
    LET found == {k \in 1..Len(line_ranges) :
                      line_ranges[k].start <= point /\ point < line_ranges[k].end}
    IN  IF found = {} THEN <<>>
        ELSE <<line_ranges[CHOOSE k \in found : \A j \in found : k <= j].start>>

\* the flat_map closure of fill_markdown_ranges over the remaining ranges
RECURSIVE fill_from(_, _, _)
fill_from(wrap_ranges, lines, last_end) ==
    IF wrap_ranges = <<>> THEN <<>>
    ELSE LET el == Head(wrap_ranges)
             verbatim_line_start == unwrap_or(find_line_start(last_end, lines), last_end)
             verbatim == [verbatim |-> TRUE,
                          indent_spaces |-> last_end - verbatim_line_start,
                          range |-> [start |-> last_end, end |-> el.start]]
             wrap_line_start == unwrap_or(find_line_start(el.start, lines), el.start)
             wrap == [verbatim |-> FALSE,
                      indent_spaces |-> el.start - wrap_line_start,
                      range |-> el]
         IN  <<verbatim, wrap>> \o fill_from(Tail(wrap_ranges), lines, el.end)

\* fill_markdown_ranges keeping only the ranges of more than one byte
fill_ranges_longer_than_one(wrap_ranges, text) ==
    SelectSeq(fill_from(Append(wrap_ranges, [start |-> str_len(text), end |-> str_len(text)]),
                        line_ranges_from(text, 0, 0), 0),
              LAMBDA el : range_len(el.range) > 1)

fill_markdown_ranges(wrap_ranges, text) ==
    SelectSeq(fill_from(Append(wrap_ranges, [start |-> str_len(text), end |-> str_len(text)]),
                        line_ranges_from(text, 0, 0), 0),
              LAMBDA el : ~(el.range.start >= el.range.end))

(***************************************************************************)
(* ignore.rs and parse.rs: to_be_wrapped.  An event is a record of kind    *)
(* ("Start", "End" or the name of another variant of Event), tag (of a     *)
(* Start or End), text (the source text of an event that is not a Start or *)
(* End; the string of an Html or InlineHtml event) and range.  HTML is     *)
(* written in lexemes: "<!--", "-->", a directive or "<b>" is one token    *)
(* that takes one offset.                                                  *)
(***************************************************************************)
IGNORE_START == "mdslw-ignore-start"
IGNORE_END == "mdslw-ignore-end"
PRETTIER_IGNORE_START == "prettier-ignore-start"
PRETTIER_IGNORE_END == "prettier-ignore-end"

is_html_comment(s) ==
    /\ s # <<>> /\ s[1] = "<!--"
    /\ \/ s[Len(s)] = "-->"
       \/ Len(s) >= 2 /\ s[Len(s) - 1] = "-->" /\ s[Len(s)] = "\n"

\* IgnoreByHtmlComment::process_html: the ignore flag after the HTML s
\* process_html with the directives read in the other order
process_html_start_last(ignore, s) ==
    IF is_html_comment(s)
    THEN LET ended == IF IGNORE_END \in SeqSet(s) \/ PRETTIER_IGNORE_END \in SeqSet(s)
                      THEN FALSE ELSE ignore
         IN  IF IGNORE_START \in SeqSet(s) \/ PRETTIER_IGNORE_START \in SeqSet(s)
             THEN TRUE ELSE ended
    ELSE ignore

process_html(ignore, s) ==
    IF is_html_comment(s)
    THEN LET started == IF IGNORE_START \in SeqSet(s) \/ PRETTIER_IGNORE_START \in SeqSet(s)
                        THEN TRUE ELSE ignore
         IN  IF IGNORE_END \in SeqSet(s) \/ PRETTIER_IGNORE_END \in SeqSet(s)
             THEN FALSE ELSE started
    ELSE ignore

\* the tags of the first, second and third arm of the match on Start
KeptAsTheyAre ==
    {"BlockQuote", "CodeBlock", "FootnoteDefinition", "Heading", "Image",
     "Superscript", "Subscript", "Table", "TableCell", "TableHead", "TableRow"}

WrappedNotExtracted == {"Emphasis", "Link", "Strikethrough", "Strong"}

CanBeAnything ==
    {"Item", "List", "Paragraph", "MetadataBlock", "DefinitionList",
     "DefinitionListTitle", "DefinitionListDefinition"}

\* !range.filter_map(|el| whitespaces.get(&el)).any(|el| el == &'\n')
no_linebreak(range, whitespaces) ==
    ~\E el \in range.start..(range.end - 1) :
        el \in DOMAIN whitespaces /\ whitespaces[el] = "\n"

\* the two filter closures of to_be_wrapped applied to one event: the ignore
\* flag and the verbatim level after it, whether its range is kept, and
\* whether the expect on checked_sub panicked
filter_event(event, ignore, verbatim_level, whitespaces) ==
    LET ignored == IF event.kind = "Html" THEN process_html(ignore, event.text) ELSE ignore
        after(level, keep) ==
            [ignore |-> ignored, verbatim_level |-> level, keep |-> keep, panic |-> FALSE]
    IN  IF ignored THEN after(verbatim_level, FALSE)
        ELSE IF event.kind = "Start"
        THEN IF event.tag \in KeptAsTheyAre THEN after(verbatim_level + 1, FALSE)
             ELSE IF event.tag \in WrappedNotExtracted THEN after(verbatim_level + 1, TRUE)
             ELSE IF event.tag \in CanBeAnything THEN after(verbatim_level, FALSE)
             ELSE after(verbatim_level, no_linebreak(event.range, whitespaces))
        ELSE IF event.kind = "End"
        THEN IF event.tag \in KeptAsTheyAre \cup WrappedNotExtracted
             THEN IF verbatim_level = 0
                  THEN [after(verbatim_level, FALSE) EXCEPT !.panic = TRUE]
                  ELSE after(verbatim_level - 1, FALSE)
             ELSE after(verbatim_level, FALSE)
        ELSE IF event.kind \in {"TaskListMarker", "FootnoteReference", "Rule",
                                "InlineMath", "DisplayMath"}
        THEN after(verbatim_level, FALSE)
        ELSE IF event.kind \in {"Html", "InlineHtml"}
        THEN after(verbatim_level, no_linebreak(event.range, whitespaces))
        ELSE after(verbatim_level, verbatim_level = 0)

(***************************************************************************)
(* Specification SpecDetect: a BreakDetector is built from its arguments   *)
(* and then queried.                                                       *)
(***************************************************************************)
MaxQueryLen == 3

RECURSIVE SeqsUpTo(_, _)
SeqsUpTo(S, n) ==
    IF n = 0 THEN {<<>>}
    ELSE LET shorter == SeqsUpTo(S, n - 1)
         IN  shorter \cup {Append(s, c) : s \in {t \in shorter : Len(t) = n - 1}, c \in S}

\* the characters of the enumerated query texts
QueryChars == {"g", "G", ".", " ", "eacute"}

\* texts of the program's own tests and of its documentation
ExampleTexts ==
    { <<"e", ".", "g", ".">>,
      <<"S", "i", "T">>, <<"s", "i", "t">>, <<"S", "I", "T">>, <<"S", "i", "t">>,
      <<"t", "e", "x", "t", ".">>,
      <<"Idot">>, <<"i", "dotabove">> }

QueryTexts == SeqsUpTo(QueryChars, MaxQueryLen) \cup ExampleTexts

KeepWordArgs ==
    { <<>>,
      <<"g", ".">>,
      <<"S", "i", "T">>,
      <<"T", "E", "X", "T", ".">>,
      <<"eacute", ".">>,
      <<" ", "G", ".", "\t", " ", "Eacute", "\n">> }

KeepIgnoreArgs ==
    { <<>>,
      <<"g", ".">>,
      <<"G", ".", " ", "x", ".", " ", "s", "i", "t">> }

EndMarkerArgs == { <<".">>, <<".", "!">> }

DefaultCfg ==
    [breaking_multiple_markers |-> FALSE,
     breaking_start_marker |-> FALSE,
     breaking_nbsp |-> FALSE]

\* the argument tuples BreakDetector::new is called with
DetectArgs ==
    [keep_words : KeepWordArgs, keep_word_ignores : KeepIgnoreArgs,
     keep_words_preserve_case : BOOLEAN, end_markers : {<<".">>},
     break_cfg : {DefaultCfg}]
    \cup
    [keep_words : {<<>>}, keep_word_ignores : {<<>>},
     keep_words_preserve_case : {FALSE}, end_markers : EndMarkerArgs,
     break_cfg : BreakCfg]

MarkerChars == {"a", ".", "!", " ", "\n", "\t", "nbsp"}

OptChars(S) == {<<>>} \cup {<<c>> : c \in S}

NoDetector == BreakDetector_new(<<>>, <<>>, FALSE, <<>>, DefaultCfg)

NoQuery ==
    [op |-> "none", args |-> <<>>, text |-> <<>>, idx |-> 0,
     prev |-> <<>>, ch |-> "", next |-> <<>>, result |-> FALSE]

IdleLb ==
    [text |-> <<>>, indent |-> <<>>, merged |-> <<>>, sentence_ends |-> {},
     broken |-> <<>>]
IdleWr ==
    [sentence |-> <<>>, sentence_idx |-> 0, max_width |-> <<>>, indent |-> <<>>,
     lines |-> <<>>]

IdleDoc == [text |-> <<>>]

InitDetect ==
    /\ pc = "args"
    /\ query \in {[NoQuery EXCEPT !.args = a] : a \in DetectArgs}
    /\ detector = NoDetector
    /\ lb = IdleLb
    /\ wr = IdleWr
    /\ doc = IdleDoc

\* BreakDetector::new
New ==
    /\ pc = "args"
    /\ detector' = BreakDetector_new(query.args.keep_words,
                                     query.args.keep_word_ignores,
                                     query.args.keep_words_preserve_case,
                                     query.args.end_markers,
                                     query.args.break_cfg)
    /\ pc' = "ready"
    /\ UNCHANGED <<query, lb, wr, doc>>

\* a call of BreakDetector::ends_with_keep_word
EndsWithKeepWord ==
    /\ pc = "ready"
    /\ \E text \in QueryTexts : \E idx \in 0..Len(text) :
          query' = [query EXCEPT !.op = "ends_with_keep_word",
                                 !.text = text, !.idx = idx,
                                 !.prev = <<>>, !.ch = "", !.next = <<>>,
                                 !.result = ends_with_keep_word(detector, text, idx)]
    /\ pc' = "queried"
    /\ UNCHANGED <<detector, lb, wr, doc>>

\* a call of BreakDetector::is_breaking_marker
IsBreakingMarker ==
    /\ pc = "ready"
    /\ \E prev \in OptChars(MarkerChars), ch \in MarkerChars, next \in OptChars(MarkerChars) :
          query' = [query EXCEPT !.op = "is_breaking_marker",
                                 !.text = <<>>, !.idx = 0,
                                 !.prev = prev, !.ch = ch, !.next = next,
                                 !.result = is_breaking_marker(detector, prev, ch, next)]
    /\ pc' = "queried"
    /\ UNCHANGED <<detector, lb, wr, doc>>

NextDetect == New \/ EndsWithKeepWord \/ IsBreakingMarker

SpecDetect == InitDetect /\ [][NextDetect]_vars

(***************************************************************************)
(* Properties of the BreakDetector, under SpecDetect.                      *)
(***************************************************************************)
IsMarkerQuery == pc = "queried" /\ query.op = "is_breaking_marker"
IsKeepQuery == pc = "queried" /\ query.op = "ends_with_keep_word"

\* C2: is_breaking_marker follows the decision table: false when ch is no
\* configured end marker; false when prev is an end marker and multiple
\* markers are not allowed; false when prev is None or '\n' and a start
\* marker is not allowed; true when ch is an end marker, next is a space and
\* neither prev rule blocks.
C2_DecisionTable ==
    IsMarkerQuery =>
        LET markers        == SeqSet(query.args.end_markers)
            allow_multiple == query.args.break_cfg.breaking_multiple_markers
            allow_start    == query.args.break_cfg.breaking_start_marker
            blocked_marker == query.prev # <<>> /\ query.prev[1] \in markers
                              /\ ~allow_multiple
            blocked_start  == (query.prev = <<>> \/ query.prev = <<"\n">>)
                              /\ ~allow_start
        IN  /\ (query.ch \notin markers => ~query.result)
            /\ (blocked_marker => ~query.result)
            /\ (blocked_start => ~query.result)
            /\ (query.ch \in markers /\ query.next = <<" ">>
                    /\ ~blocked_marker /\ ~blocked_start => query.result)

C2_Witness ==
    /\ IsMarkerQuery
    /\ query.prev = <<".">> /\ query.ch = "!" /\ query.next = <<" ">>
    /\ query.args.break_cfg.breaking_multiple_markers
    /\ query.result

\* C3: is_breaking_marker is true only if next is a character that the
\* detector's own WhitespaceDetector classifies as whitespace (so it is false
\* for None and for a non-breaking space the classifier excludes).
C3_NextIsClassifiedWhitespace ==
    IsMarkerQuery /\ query.result =>
        /\ query.next # <<>>
        /\ WhitespaceDetector_is_whitespace(detector.whitespace, query.next[1])

\* C4: with the single keep word "g.", ends_with_keep_word on "e.g." at the
\* final "." is false; a keep word only matches when the match begins at the
\* start of the text or right after a non-alphanumeric character.
C4_WordBoundaryPrecision ==
    IsKeepQuery =>
        /\ (/\ {kw[1] : kw \in detector.keep_words} = {<<"g", ".">>}
            /\ query.text = <<"e", ".", "g", ".">>
            /\ query.idx = 3
            => ~query.result)
        /\ (query.result =>
               \E kw \in detector.keep_words :
                   /\ query.idx >= kw[2]
                   /\ (query.idx = kw[2]
                       \/ ~is_alphanumeric(At(query.text, query.idx - kw[2] - 1))))

\* C5: ends_with_keep_word(text, idx) is true iff for some keep word w of k
\* characters the k characters of text ending at idx, case-folded, equal w and
\* the match begins at the start of the text or after a non-alphanumeric
\* character.
C5_ComparesWholeWord ==
    IsKeepQuery =>
        (query.result <=>
            /\ query.idx < Len(query.text)
            /\ \E kw \in detector.keep_words :
                 LET w == kw[1]
                     k == Len(w)
                 IN  /\ query.idx + 1 >= k
                     /\ (query.idx + 1 = k
                         \/ ~is_alphanumeric(At(query.text, query.idx - k)))
                     /\ fold_case(SubSeq(query.text, query.idx + 2 - k, query.idx + 1),
                                  detector.keep_words_preserve_case) = w)

\* C6: with preserve_case a keep word matches only text of exactly the same
\* casing; without it a keep word given in any casing matches the text in
\* any casing.
C6_CaseSensitivityToggle ==
    IsKeepQuery /\ query.args.keep_word_ignores = <<>>
                /\ query.text # <<>> /\ query.idx = Len(query.text) - 1 =>
        \A w \in SeqSet(split_whitespace(query.args.keep_words)) :
            str_to_lowercase(query.text) = str_to_lowercase(w) =>
                IF query.args.keep_words_preserve_case
                THEN query.result <=> query.text = w
                ELSE query.result

\* w is a whitespace-separated word of s
IsWordOf(w, s) ==
    /\ w # <<>>
    /\ \A i \in 1..Len(w) : ~char_is_whitespace(w[i])
    /\ \E i \in 1..Len(s) :
         LET j == i + Len(w) - 1
         IN  /\ j <= Len(s)
             /\ SubSeq(s, i, j) = w
             /\ (i = 1 \/ char_is_whitespace(s[i - 1]))
             /\ (j = Len(s) \/ char_is_whitespace(s[j + 1]))

SubSeqsOf(s) == {SubSeq(s, i, j) : i \in 1..Len(s), j \in 1..Len(s)}

MaxTextLen == 4

TextChars == {"a", ".", " ", "\n", "nbsp"}

SeeEgThis ==
    <<"S", "e", "e", " ", "e", ".", "g", ".", " ", "t", "h", "i", "s">>

EndOfSentenceNext ==
    <<"E", "n", "d", " ", "o", "f", " ", "s", "e", "n", "t", "e", "n", "c", "e",
      ".", " ", "N", "e", "x", "t">>

Texts == SeqsUpTo(TextChars, MaxTextLen) \cup {SeeEgThis, EndOfSentenceNext}

Indents == { <<>>, <<"|">> }

LineBreakerDetectArgs ==
    [keep_words : { <<>>, <<"a", ".", " ", "e", ".", "g", ".">> },
     keep_word_ignores : {<<>>},
     keep_words_preserve_case : {FALSE}, end_markers : {<<".">>},
     break_cfg : BreakCfg]

Init ==
    /\ pc = "text"
    /\ \E a \in LineBreakerDetectArgs :
         detector = BreakDetector_new(a.keep_words, a.keep_word_ignores,
                                      a.keep_words_preserve_case, a.end_markers,
                                      a.break_cfg)
    /\ lb \in [text : Texts, indent : Indents, merged : {<<>>},
               sentence_ends : {{}}, broken : {<<>>}]
    /\ query = NoQuery
    /\ wr = IdleWr
    /\ doc = IdleDoc

MergeAllWhitespace ==
    /\ pc = "text"
    /\ lb' = [lb EXCEPT !.merged = merge_all_whitespace(lb.text, detector.whitespace)]
    /\ pc' = "merged"
    /\ UNCHANGED <<detector, query, wr, doc>>

FindSentenceEnds ==
    /\ pc = "merged"
    /\ lb' = [lb EXCEPT !.sentence_ends = find_sentence_ends(lb.merged, detector)]
    /\ pc' = "ends"
    /\ UNCHANGED <<detector, query, wr, doc>>

InsertLinebreaks ==
    /\ pc = "ends"
    /\ lb' = [lb EXCEPT !.broken =
                 rebuild_from(lb.merged, lb.sentence_ends, lb.indent, 0)]
    /\ pc' = "done"
    /\ UNCHANGED <<detector, query, wr, doc>>

Next == MergeAllWhitespace \/ FindSentenceEnds \/ InsertLinebreaks

Spec == Init /\ [][Next]_vars

(***************************************************************************)
(* Properties of the line breaker, under Spec.                             *)
(***************************************************************************)
\* the indices of the merged text the detector takes for sentence ends
Detected(i) ==
    /\ is_breaking_marker(detector, Get(lb.merged, i - 1), At(lb.merged, i),
                          Get(lb.merged, i + 1))
    /\ ~ends_with_keep_word(detector, lb.merged, i)

Marked(i) == Skip(i + 1) \in lb.sentence_ends /\ Split(i + 2) \in lb.sentence_ends

KeepWordsOf(self) == {kw[1] : kw \in self.keep_words}

\* C1: an index of the merged text is marked as a sentence end iff
\* is_breaking_marker holds there and ends_with_keep_word does not; nothing
\* else is marked; "See e.g. this" with keep word "e.g." has no sentence end
\* at the "." after "e.g", "End of sentence. Next" without keep words has one
\* at its "."; an end marker that is the last character is never marked.
C1_SentenceEnds ==
    pc \in {"ends", "done"} =>
        LET idxs == 0..(Len(lb.merged) - 1)
        IN  /\ \A i \in idxs : Marked(i) <=> Detected(i)
            /\ lb.sentence_ends =
                   {Skip(i + 1) : i \in {j \in idxs : Detected(j)}}
                   \cup {Split(i + 2) : i \in {j \in idxs : Detected(j)}}
            /\ \A i \in idxs : Marked(i) => i < Len(lb.merged) - 1
            /\ (lb.text = SeeEgThis /\ <<"e", ".", "g", ".">> \in KeepWordsOf(detector)
                    => ~Marked(7) /\ lb.sentence_ends = {})
            /\ (lb.text = EndOfSentenceNext /\ detector.keep_words = {}
                    => Marked(15))

C1_Witness ==
    /\ pc = "done"
    /\ lb.text = <<"a", ".", " ", "a">>
    /\ <<"a", ".">> \in KeepWordsOf(detector)
    /\ lb.sentence_ends = {}

\* the merged text from index j on, with the character after each detected
\* sentence end replaced by a line break and the indent
RECURSIVE ReplaceAfterEnds(_)
ReplaceAfterEnds(j) ==
    IF j >= Len(lb.merged) THEN <<>>
    ELSE (IF j >= 1 /\ Detected(j - 1)
          THEN <<"\n">> \o lb.indent
          ELSE <<At(lb.merged, j)>>)
         \o ReplaceAfterEnds(j + 1)

\* C8: for every detected sentence end exactly the character following the
\* end marker is removed and a line break (followed by the indent) is put in
\* its place; every other character of the merged text is kept, in order;
\* also when the end marker is followed only by one trailing whitespace
\* character at the end of the text.
C8_BreakReplacesOneChar == pc = "done" => lb.broken = ReplaceAfterEnds(0)

\* C9: merging whitespace is idempotent, and the merged text has no two
\* consecutive characters classified as whitespace and no character
\* classified as whitespace other than ' '.
C9_MergeIdempotent ==
    pc # "text" =>
        LET ws == detector.whitespace
        IN  /\ merge_all_whitespace(lb.merged, ws) = lb.merged
            /\ \A i \in 1..Len(lb.merged) :
                 WhitespaceDetector_is_whitespace(ws, lb.merged[i])
                     => lb.merged[i] = " "
            /\ \A i \in 1..(Len(lb.merged) - 1) :
                 ~(/\ WhitespaceDetector_is_whitespace(ws, lb.merged[i])
                   /\ WhitespaceDetector_is_whitespace(ws, lb.merged[i + 1]))

C9_Witness ==
    /\ pc = "merged"
    /\ lb.text = <<"a", "\n", " ", "a">>
    /\ lb.merged = <<"a", " ", "a">>

(***************************************************************************)
(* Specification SpecWrap: wrap_long_line_and_collapse_inline_whitespace   *)
(* is applied to one sentence.                                             *)
(***************************************************************************)
MaxSentenceLen == 5
MaxWidth == 4

SentenceChars == {"a", " ", "nbsp"}

WrapIndents == { <<>>, <<" ", " ">>, <<"|">> }

\* Option<usize>: None, Some(0), ..., Some(MaxWidth)
Widths == {<<>>} \cup {<<w>> : w \in 0..MaxWidth}

\* the sentence of test::not_wrapping_long_sentence_unless_requested
SomewhatLongSentence ==
    <<"t", "h", "i", "s", " ", "s", "e", "n", "t", "e", "n", "c", "e", " ",
      "i", "s", " ", "s", "o", "m", "e", "w", "h", "a", "t", " ", "l", "o",
      "n", "g", " ", "b", "u", "t", " ", "w", "i", "l", "l", " ", "n", "o",
      "t", " ", "b", "e", " ", "w", "r", "a", "p", "p", "e", "d">>

\* the sentence of test::wrapping_long_sentence
NotThatLongSentence ==
    <<"t", "h", "i", "s", " ", "s", "e", "n", "t", "e", "n", "c", "e", " ",
      "i", "s", " ", "n", "o", "t", " ", "t", "h", "a", "t", " ", "l", "o",
      "n", "g", " ", "b", "u", "t", " ", "w", "i", "l", "l", " ", "b", "e",
      " ", "w", "r", "a", "p", "p", "e", "d">>

\* the sentence of test::wrapping_long_sentence_that_is_not_the_first
SomeSentenceWithWords ==
    <<"s", "o", "m", "e", " ", "s", "e", "n", "t", "e", "n", "c", "e", " ",
      "w", "i", "t", "h", " ", "w", "o", "r", "d", "s">>

\* the arguments of the tests of wrap.rs
ExampleWrapArgs ==
    { [sentence |-> SomewhatLongSentence, sentence_idx |-> 0, max_width |-> <<>>,
       indent |-> <<" ", " ">>, lines |-> <<>>],
      [sentence |-> NotThatLongSentence, sentence_idx |-> 0, max_width |-> <<11>>,
       indent |-> <<" ", " ">>, lines |-> <<>>],
      [sentence |-> SomeSentenceWithWords, sentence_idx |-> 1, max_width |-> <<5>>,
       indent |-> <<"|">>, lines |-> <<>>] }

InitWrap ==
    /\ pc = "sentence"
    /\ wr \in [sentence : SeqsUpTo(SentenceChars, MaxSentenceLen),
               sentence_idx : {0, 1}, max_width : Widths, indent : WrapIndents,
               lines : {<<>>}]
              \cup ExampleWrapArgs
    /\ \E cfg \in {c \in BreakCfg : ~c.breaking_multiple_markers /\ ~c.breaking_start_marker} :
         detector = BreakDetector_new(<<>>, <<>>, FALSE, <<".">>, cfg)
    /\ query = NoQuery
    /\ lb = IdleLb
    /\ doc = IdleDoc

WrapLongLine ==
    /\ pc = "sentence"
    /\ wr' = [wr EXCEPT !.lines =
                 wrap_long_line_and_collapse_inline_whitespace(
                     wr.sentence, wr.sentence_idx, wr.max_width, wr.indent,
                     detector.whitespace)]
    /\ pc' = "wrapped"
    /\ UNCHANGED <<detector, query, lb, doc>>

NextWrap == WrapLongLine

SpecWrap == InitWrap /\ [][NextWrap]_vars

(***************************************************************************)
(* Properties of the greedy wrapper, under SpecWrap.                       *)
(***************************************************************************)
\* the words of s: w is the list of maximal runs of non-whitespace characters
IsWordStart(ws, s, i) ==
    /\ ~WhitespaceDetector_is_whitespace(ws, s[i])
    /\ (i = 1 \/ WhitespaceDetector_is_whitespace(ws, s[i - 1]))

WordCount(ws, s) == Cardinality({i \in 1..Len(s) : IsWordStart(ws, s, i)})

NonWhitespace(ws, s) ==
    SelectSeq(s, LAMBDA c : ~WhitespaceDetector_is_whitespace(ws, c))

\* C10: with max_width None or Some(0) the wrapper returns exactly one line
\* for every sentence, whatever its length: the line holds every word of the
\* sentence (after the indent, for a sentence that is not the first).
C10_NoWrapWithoutWidth ==
    pc = "wrapped" /\ wr.max_width \in {<<>>, <<0>>} =>
        LET ws    == detector.whitespace
            n     == WordCount(ws, wr.sentence)
            added == IF wr.sentence_idx = 0 \/ n = 0 THEN <<>> ELSE wr.indent
        IN  /\ Len(wr.lines) = 1
            /\ "\n" \notin SeqSet(wr.lines[1])
            /\ Len(wr.lines[1]) =
                   Len(added) + Len(NonWhitespace(ws, wr.sentence))
                   + (IF n = 0 THEN 0 ELSE n - 1)
            /\ (wr.sentence = SomewhatLongSentence /\ wr.sentence_idx = 0
                    => wr.lines = <<wr.sentence>>)

C10_Witness ==
    /\ pc = "wrapped"
    /\ wr.max_width = <<>>
    /\ wr.sentence = SomewhatLongSentence
    /\ wr.lines = <<SomewhatLongSentence>>

\* the words of the sentence, in order
SentenceWords == detector_split_ws(detector.whitespace, wr.sentence, <<>>)

\* the indent the wrapper puts in front of output line k: none in front of
\* the first line of sentence 0, and none where there is no word
AddedIndent(k) ==
    IF (k = 1 /\ wr.sentence_idx = 0) \/ SentenceWords = <<>> THEN <<>> ELSE wr.indent

\* the part of output line k that follows the added indent
LineBody(k) == SubSeq(wr.lines[k], Len(AddedIndent(k)) + 1, Len(wr.lines[k]))

\* the words of output line k
LineWords(k) == detector_split_ws(detector.whitespace, LineBody(k), <<>>)

RECURSIVE JoinWords(_, _)
JoinWords(words, sep) ==
    IF words = <<>> THEN <<>>
    ELSE IF Len(words) = 1 THEN Head(words)
    ELSE Head(words) \o sep \o JoinWords(Tail(words), sep)

RECURSIVE WordsOfLines(_)
WordsOfLines(k) ==
    IF k > Len(wr.lines) THEN <<>> ELSE LineWords(k) \o WordsOfLines(k + 1)

\* the length, in characters, of the first j words of output line k, counted
\* from the column the line starts in: the first line of sentence 0 continues
\* after an indent that is already there
CurrentLineLength(k, j) ==
    (IF k = 1 /\ wr.sentence_idx = 0 THEN Len(wr.indent) ELSE Len(AddedIndent(k)))
    + Len(JoinWords(SubSeq(LineWords(k), 1, j), <<" ">>))

\* C11: with max_width > 0 the output lines hold the words of the sentence in
\* order, joined by single spaces; a word after the first of a line is on
\* that line iff current_line_length + 1 + word_length <= max_width, lengths
\* counted in characters; otherwise the line was flushed and the word starts
\* a new line after the indent.  The documented sentence wrapped at width
\* 11 with indent "  " gives the seven documented lines.
C11_GreedyPacking ==
    pc = "wrapped" /\ wr.max_width # <<>> /\ wr.max_width # <<0>> =>
        LET width == wr.max_width[1]
        IN  /\ WordsOfLines(1) = SentenceWords
            /\ \A k \in 1..Len(wr.lines) :
                 /\ wr.lines[k] = AddedIndent(k) \o JoinWords(LineWords(k), <<" ">>)
                 /\ \A j \in 1..(Len(LineWords(k)) - 1) :
                      CurrentLineLength(k, j) + 1 + Len(LineWords(k)[j + 1]) <= width
                 /\ k < Len(wr.lines) =>
                      /\ LineWords(k + 1) # <<>>
                      /\ CurrentLineLength(k, Len(LineWords(k))) + 1
                             + Len(LineWords(k + 1)[1]) > width
            /\ (wr.sentence = NotThatLongSentence /\ wr.sentence_idx = 0
                 /\ width = 11 /\ wr.indent = <<" ", " ">>
                    => wr.lines =
                         << <<"t", "h", "i", "s">>,
                            <<" ", " ", "s", "e", "n", "t", "e", "n", "c", "e">>,
                            <<" ", " ", "i", "s", " ", "n", "o", "t">>,
                            <<" ", " ", "t", "h", "a", "t", " ", "l", "o", "n", "g">>,
                            <<" ", " ", "b", "u", "t", " ", "w", "i", "l", "l">>,
                            <<" ", " ", "b", "e">>,
                            <<" ", " ", "w", "r", "a", "p", "p", "e", "d">> >>)

\* a two-byte character decides: "a" and the no-break space fit in width 3
\* by characters, not by bytes
C11_Witness ==
    /\ pc = "wrapped"
    /\ wr.sentence = <<"a", " ", "nbsp", " ", "a">>
    /\ wr.sentence_idx = 0
    /\ wr.indent = <<>>
    /\ wr.max_width = <<3>>
    /\ wr.lines = << <<"a", " ", "nbsp">>, <<"a">> >>

\* output line k starts with exactly the indent, followed directly by a word
StartsWithIndentThenWord(k) ==
    LET line == wr.lines[k]
        n    == Len(wr.indent)
    IN  /\ Len(line) > n
        /\ SubSeq(line, 1, n) = wr.indent
        /\ ~WhitespaceDetector_is_whitespace(detector.whitespace, line[n + 1])

\* the indentation of every output line, for a sentence that may have no word
IndentOfEveryLine ==
    \A k \in 1..Len(wr.lines) :
        IF k = 1 /\ wr.sentence_idx = 0
        THEN SentenceWords # <<>> =>
                 SubSeq(wr.lines[1], 1, Len(SentenceWords[1])) = SentenceWords[1]
        ELSE StartsWithIndentThenWord(k)

\* C12: for a sentence that has at least one word, the first output line of
\* sentence index 0 starts with the first word without any added indent; the
\* first output line of a sentence with index >= 1 and every continuation
\* line start with exactly the indent string, copied literally, followed
\* directly by a word.
C12_IndentRule ==
    pc = "wrapped" /\ SentenceWords # <<>> =>
        /\ IndentOfEveryLine
        /\ (wr.sentence = SomeSentenceWithWords /\ wr.sentence_idx = 1
             /\ wr.max_width = <<5>> /\ wr.indent = <<"|">>
                => wr.lines = << <<"|", "s", "o", "m", "e">>,
                                 <<"|", "s", "e", "n", "t", "e", "n", "c", "e">>,
                                 <<"|", "w", "i", "t", "h">>,
                                 <<"|", "w", "o", "r", "d", "s">> >>)

C12_Witness ==
    /\ pc = "wrapped"
    /\ wr.sentence = SomeSentenceWithWords
    /\ wr.sentence_idx = 1
    /\ wr.indent = <<"|">>
    /\ Len(wr.lines) = 4
    /\ wr.lines[4] = <<"|", "w", "o", "r", "d", "s">>

\* C12 as stated for every sentence, one without a word included: its only
\* output line is empty and carries no indent
C12_IndentRuleOfEverySentence == pc = "wrapped" => IndentOfEveryLine

(***************************************************************************)
(* Specification SpecRewrap: add_linebreaks_and_wrap is applied to a       *)
(* document that its TextRanges cover.                                     *)
(***************************************************************************)
MaxDocLen == 4
MaxRanges == 3

DocChars == {"a", ".", "\n"}

\* the payloads of WrapType::Indent
IndentSpaces == {0, 3}

WrapTypes == {<<"Verbatim">>} \cup {<<"Indent", n>> : n \in IndentSpaces}

\* the lists of at most k contiguous non-empty TextRanges that cover the
\* bytes from start to end
RECURSIVE TextRangesOver(_, _, _)
TextRangesOver(start, end, k) ==
    IF start = end THEN {<<>>}
    ELSE IF k = 0 THEN {}
    ELSE UNION { { <<[wrap |-> w, range |-> [start |-> start, end |-> e]]>> \o rest :
                       w \in WrapTypes, rest \in TextRangesOver(e, end, k - 1) } :
                 e \in (start + 1)..end }

\* the text of test::adding_linebreaks_after_sentences
TextOfTwoParts ==
    <<"S", "o", "m", "e", " ", "t", "e", "x", "t", ".", " ", "I", "t", " ",
      "c", "o", "n", "t", "a", "i", "n", "s", " ", "s", "e", "n", "t", "e",
      "n", "c", "e", "s", ".", " ", "|", " ", "I", "t", "'", "s", " ", "s",
      "e", "p", "a", "r", "a", "t", "e", "d", " ", "i", "n", " ", "t", "w",
      "o", ".", " ", "P", "a", "r", "t", "s", ",", " ", "t", "h", "a", "t",
      " ", "i", "s", ".">>

SomeTextItContainsSentences ==
    <<"S", "o", "m", "e", " ", "t", "e", "x", "t", ".", " ", "I", "t", " ",
      "c", "o", "n", "t", "a", "i", "n", "s", " ", "s", "e", "n", "t", "e",
      "n", "c", "e", "s", ".">>

\* the arguments of the test of add_linebreaks_and_wrap and of the documented
\* example
ExampleRewrapArgs ==
    { [text |-> TextOfTwoParts, max_width |-> <<>>, result |-> <<>>,
       ranges |-> <<[wrap |-> <<"Indent", 0>>, range |-> [start |-> 0, end |-> 33]],
                    [wrap |-> <<"Verbatim">>, range |-> [start |-> 33, end |-> 36]],
                    [wrap |-> <<"Indent", 3>>, range |-> [start |-> 36, end |-> 74]]>>],
      [text |-> SomeTextItContainsSentences, max_width |-> <<>>, result |-> <<>>,
       ranges |-> <<[wrap |-> <<"Indent", 0>>, range |-> [start |-> 0, end |-> 33]]>>] }

InitRewrap ==
    /\ pc = "ranges"
    /\ doc \in UNION { [text : {t}, max_width : {<<>>, <<2>>}, result : {<<>>},
                        ranges : TextRangesOver(0, str_len(t), MaxRanges)] :
                       t \in SeqsUpTo(DocChars, MaxDocLen) }
               \cup ExampleRewrapArgs
    /\ detector = BreakDetector_new(<<>>, <<>>, FALSE, <<".">>, DefaultCfg)
    /\ query = NoQuery
    /\ lb = IdleLb
    /\ wr = IdleWr

AddLinebreaksAndWrap ==
    /\ pc = "ranges"
    /\ doc' = [doc EXCEPT !.result =
                  add_linebreaks_and_wrap(doc.ranges, doc.max_width, detector, doc.text)]
    /\ pc' = "rewrapped"
    /\ UNCHANGED <<detector, query, lb, wr>>

NextRewrap == AddLinebreaksAndWrap

SpecRewrap == InitRewrap /\ [][NextRewrap]_vars

(***************************************************************************)
(* Properties of add_linebreaks_and_wrap, under SpecRewrap.                *)
(***************************************************************************)
IsVerbatim(k) == doc.ranges[k].wrap = <<"Verbatim">>

\* the text of range k with line breaks after its sentences, each sentence
\* wrapped
BrokenAndWrapped(k) ==
    LET r      == doc.ranges[k]
        broken == insert_linebreaks_after_sentence_ends(slice_from(doc.text, r.range, 0), detector)
    IN  join(wrap_sentences(split_on(broken, "\n", <<>>), 0, doc.max_width,
                            build_indent(r.wrap[2]), detector.whitespace),
             <<"\n">>)

\* the outputs of the ranges from k on, concatenated
RECURSIVE OutputsFrom(_)
OutputsFrom(k) ==
    IF k > Len(doc.ranges) THEN <<>>
    ELSE (IF IsVerbatim(k) THEN slice_from(doc.text, doc.ranges[k].range, 0)
          ELSE BrokenAndWrapped(k))
         \o OutputsFrom(k + 1)

\* s without the whitespace at its end
WithoutTrailingWhitespace(s) ==
    LET n == IF \E i \in 1..Len(s) : ~char_is_whitespace(s[i])
             THEN CHOOSE i \in 1..Len(s) :
                      /\ ~char_is_whitespace(s[i])
                      /\ \A j \in (i + 1)..Len(s) : char_is_whitespace(s[j])
             ELSE 0
    IN  SubSeq(s, 1, n)

\* C13: the result is the concatenation, in the order of the ranges, of the
\* unchanged text of every Verbatim range and the broken-and-wrapped text of
\* every Indent(n) range, without the whitespace at the end of the whole; a
\* document whose ranges are all Verbatim is returned unchanged except for
\* trailing whitespace; "Some text. It contains sentences." becomes
\* "Some text.\nIt contains sentences.".
C13_RangesInOrder ==
    pc = "rewrapped" =>
        /\ doc.result = WithoutTrailingWhitespace(OutputsFrom(1))
        /\ ((\A k \in 1..Len(doc.ranges) : IsVerbatim(k))
                => doc.result = WithoutTrailingWhitespace(doc.text))
        /\ (doc.text = SomeTextItContainsSentences => doc.result =
             <<"S", "o", "m", "e", " ", "t", "e", "x", "t", ".", "\n", "I", "t",
               " ", "c", "o", "n", "t", "a", "i", "n", "s", " ", "s", "e", "n", "t",
               "e", "n", "c", "e", "s", ".">>)
        /\ (doc.text = TextOfTwoParts => doc.result =
             <<"S", "o", "m", "e", " ", "t", "e", "x", "t", ".", "\n", "I", "t",
               " ", "c", "o", "n", "t", "a", "i", "n", "s", " ", "s", "e", "n", "t",
               "e", "n", "c", "e", "s", ".", " ", "|", " ", "I", "t", "'", "s", " ",
               "s", "e", "p", "a", "r", "a", "t", "e", "d", " ", "i", "n", " ", "t",
               "w", "o", ".", "\n", " ", " ", " ", "P", "a", "r", "t", "s", ",",
               " ", "t", "h", "a", "t", " ", "i", "s", ".">>)

\* a Verbatim range that ends in a line break, a wrapped range, and a
\* Verbatim line break at the end
C13_Witness ==
    /\ pc = "rewrapped"
    /\ doc.text = <<"a", "\n", "a", "\n">>
    /\ Len(doc.ranges) = 3
    /\ IsVerbatim(1) /\ ~IsVerbatim(2) /\ IsVerbatim(3)
    /\ doc.ranges[1].range = [start |-> 0, end |-> 2]
    /\ doc.result = <<"a", "\n", "a">>

(***************************************************************************)
(* Specification SpecMerge: merge_ranges walks a list of ranges over a     *)
(* text, one iteration of its loop at a time, and then removes the short   *)
(* ranges.                                                                 *)
(***************************************************************************)
MaxMergeLen == 3
MaxMergeRanges == 2

MergeChars == {"a", " ", "\n"}

\* the lists of at most k ranges within 0..n whose start offsets are at
\* least from and do not decrease
RECURSIVE SortedRanges(_, _, _)
SortedRanges(from, n, k) ==
    {<<>>} \cup
    (IF k = 0 THEN {}
     ELSE UNION { UNION { { <<[start |-> a, end |-> b]>> \o rest :
                              rest \in SortedRanges(a, n, k - 1) } :
                          b \in a..n } :
                  a \in from..n })

\* the text of test::merging_ranges
SomeTextMoreText ==
    <<"s", "o", "m", "e", " ", "t", "e", "x", "t", "\n", "\n", "m", "o",
      "r", "e", " ", "t", "e", "x", "t", " ", "|", " ", "e", "v", "e", "n",
      " ", "m", "o", "r", "e", " ", "t", "e", "x", "t">>

\* the arguments of test::merging_ranges, and two ranges around a no-break
\* space
ExampleMergeArgs ==
    { [text |-> SomeTextMoreText, keep_linebreaks |-> FALSE,
       ranges |-> <<[start |-> 0, end |-> 4], [start |-> 5, end |-> 9],
                    [start |-> 11, end |-> 15], [start |-> 11, end |-> 14],
                    [start |-> 16, end |-> 19], [start |-> 23, end |-> 36]>>] }
    \cup { [text |-> <<"a", "a", "nbsp", "a", "a">>, keep_linebreaks |-> k,
            ranges |-> <<[start |-> 0, end |-> 2], [start |-> 4, end |-> 6]>>] :
            k \in BOOLEAN }

MergeArgs ==
    UNION { [text : {t}, keep_linebreaks : {FALSE},
             ranges : SortedRanges(0, str_len(t), MaxMergeRanges)] :
            t \in SeqsUpTo(MergeChars, MaxMergeLen) }
    \cup ExampleMergeArgs

InitMerge ==
    /\ pc = "merging"
    /\ \E args \in MergeArgs :
         doc = [text |-> args.text, keep_linebreaks |-> args.keep_linebreaks,
                ranges |-> args.ranges, i |-> 0, next_range |-> <<>>,
                merged |-> <<>>, removed |-> <<>>]
    /\ detector = NoDetector
    /\ query = NoQuery
    /\ lb = IdleLb
    /\ wr = IdleWr

\* the whitespaces parse_markdown hands to merge_ranges
Whitespaces ==
    whitespace_indices(doc.text, WhitespaceDetector_new(doc.keep_linebreaks))

\* one iteration of the loop
MergeRange ==
    /\ pc = "merging"
    /\ doc.i < Len(doc.ranges)
    /\ LET step == merge_range(doc.next_range, doc.merged, doc.ranges[doc.i + 1],
                               Whitespaces)
       IN  doc' = [doc EXCEPT !.i = doc.i + 1,
                              !.next_range = step.next_range,
                              !.merged = step.merged]
    /\ pc' = "merging"
    /\ UNCHANGED <<detector, query, lb, wr>>

\* after the loop
RemoveShortRanges ==
    /\ pc = "merging"
    /\ doc.i = Len(doc.ranges)
    /\ doc' = [doc EXCEPT !.removed = remove_short_ranges(doc.next_range, doc.merged)]
    /\ pc' = "merged"
    /\ UNCHANGED <<detector, query, lb, wr>>

NextMerge == MergeRange \/ RemoveShortRanges

SpecMerge == InitMerge /\ [][NextMerge]_vars

(***************************************************************************)
(* Properties of merge_ranges, under SpecMerge.                            *)
(***************************************************************************)
\* the character of the text that starts at byte offset b, if any
CharAtByte(b) ==
    LET at == {i \in 1..Len(doc.text) : str_len(SubSeq(doc.text, 1, i - 1)) = b}
    IN  IF at = {} THEN <<>> ELSE <<doc.text[CHOOSE i \in at : TRUE]>>

IsWhitespaceByte(b) ==
    /\ CharAtByte(b) # <<>>
    /\ WhitespaceDetector_is_whitespace(WhitespaceDetector_new(doc.keep_linebreaks),
                                        CharAtByte(b)[1])

IsLinebreakByte(b) == IsWhitespaceByte(b) /\ CharAtByte(b) = <<"\n">>

\* the bytes between the end of the accumulated range and the start of range
Between(next, range) == {b \in 0..str_len(doc.text) : next.end <= b /\ b < range.start}

\* what becomes of the accumulated range next and of the list of emitted
\* ranges when range is walked over
GapPolicy(next, range, next_after, emitted, emitted_after) ==
    IF next.start <= range.start /\ range.end <= next.end
    THEN next_after = next /\ emitted_after = emitted
    ELSE IF /\ \A b \in Between(next, range) : IsWhitespaceByte(b)
            /\ Cardinality({b \in Between(next, range) : IsLinebreakByte(b)}) <= 1
    THEN /\ next_after = [start |-> next.start, end |-> range.end]
         /\ emitted_after = emitted
    ELSE next_after = range /\ emitted_after = Append(emitted, next)

\* C14: walking the ranges in order, a range fully contained in the
\* accumulated range is dropped; otherwise it is merged into the accumulated
\* range iff every byte between the end of the accumulated range and its
\* start is a whitespace character and at most one of them is a linebreak;
\* otherwise the accumulated range is emitted and the range starts a new
\* accumulation.  The ranges of the test are merged over a space and a
\* vertical gap of one byte, not over the blank line.
C14_MergeGapPolicy ==
    [][/\ (pc = "merging" /\ doc.i < Len(doc.ranges) /\ doc.next_range # <<>>)
            => /\ doc'.next_range # <<>>
               /\ GapPolicy(doc.next_range[1], doc.ranges[doc.i + 1],
                            doc'.next_range[1], doc.merged, doc'.merged)
       /\ (pc' = "merged" /\ doc.text = SomeTextMoreText)
            => doc'.removed = <<[start |-> 0, end |-> 9], [start |-> 11, end |-> 19],
                                [start |-> 23, end |-> 36]>>]_vars

\* the first two ranges of the test were merged over the space between
\* them, the third was not merged over the blank line
C14_Witness ==
    /\ pc = "merging"
    /\ doc.text = SomeTextMoreText
    /\ doc.i = 3
    /\ doc.merged = <<[start |-> 0, end |-> 9]>>
    /\ doc.next_range = <<[start |-> 11, end |-> 15]>>

\* C15: for ranges sorted by start offset and within the text, the ranges
\* merge_ranges returns are ordered by start, do not overlap and are not
\* adjacent, satisfy start <= end within the text, are longer than one byte,
\* and every input range longer than one byte lies in one of them.
C15_MergedRanges ==
    pc = "merged" =>
        LET out == doc.removed
        IN  /\ \A k \in 1..(Len(out) - 1) : out[k].end < out[k + 1].start
            /\ \A k \in 1..Len(out) :
                 /\ 0 <= out[k].start
                 /\ out[k].start <= out[k].end
                 /\ out[k].end <= str_len(doc.text)
                 /\ out[k].end - out[k].start > 1
            /\ \A j \in 1..Len(doc.ranges) :
                 doc.ranges[j].end - doc.ranges[j].start > 1
                     => \E k \in 1..Len(out) :
                            /\ out[k].start <= doc.ranges[j].start
                            /\ doc.ranges[j].end <= out[k].end

\* the six ranges of the test became three that are apart from each other
C15_Witness ==
    /\ pc = "merged"
    /\ doc.text = SomeTextMoreText
    /\ Len(doc.ranges) = 6
    /\ Len(doc.removed) = 3
    /\ doc.removed[2] = [start |-> 11, end |-> 19]

(***************************************************************************)
(* Specification SpecFill: fill_markdown_ranges is applied to a text and   *)
(* the ranges of it that shall be wrapped.                                 *)
(***************************************************************************)
MaxFillLen == 4
MaxFillRanges == 2

FillChars == {"a", "\n", "eacute"}

\* the lists of at most k ranges that lie between the characters of index
\* from and the end of text, in order and without overlap; the offsets are
\* in bytes
RECURSIVE DisjointRanges(_, _, _)
DisjointRanges(text, from, k) ==
    {<<>>} \cup
    (IF k = 0 THEN {}
     ELSE UNION { UNION { { <<[start |-> str_len(SubSeq(text, 1, a)),
                              end |-> str_len(SubSeq(text, 1, b))]>> \o rest :
                              rest \in DisjointRanges(text, b, k - 1) } :
                          b \in a..Len(text) } :
                  a \in from..Len(text) })

\* the text of test::filling_ranges
TextMoreText ==
    <<"\n", "t", "e", "x", "t", "\n", "m", "o", "r", "e", " ", "t", "e",
      "x", "t", "\n", "\n", "e", "v", "e", "n", " ", "m", "o", "r", "e",
      " ", "t", "e", "x", "t", "\n">>

ExampleFillArgs ==
    { [text |-> TextMoreText, filled |-> <<>>,
       wrap_ranges |-> <<[start |-> 1, end |-> 6], [start |-> 22, end |-> 26],
                         [start |-> 31, end |-> 32]>>] }

InitFill ==
    /\ pc = "filling"
    /\ doc \in UNION { [text : {t}, filled : {<<>>},
                        wrap_ranges : DisjointRanges(t, 0, MaxFillRanges)] :
                       t \in SeqsUpTo(FillChars, MaxFillLen) }
               \cup ExampleFillArgs
    /\ detector = NoDetector
    /\ query = NoQuery
    /\ lb = IdleLb
    /\ wr = IdleWr

FillMarkdownRanges ==
    /\ pc = "filling"
    /\ doc' = [doc EXCEPT !.filled = fill_markdown_ranges(doc.wrap_ranges, doc.text)]
    /\ pc' = "filled"
    /\ UNCHANGED <<detector, query, lb, wr>>

NextFill == FillMarkdownRanges

SpecFill == InitFill /\ [][NextFill]_vars

(***************************************************************************)
(* Properties of fill_markdown_ranges, under SpecFill.                     *)
(***************************************************************************)
\* the text slices of the filled ranges from k on, concatenated
RECURSIVE FilledTextFrom(_)
FilledTextFrom(k) ==
    IF k > Len(doc.filled) THEN <<>>
    ELSE slice_from(doc.text, doc.filled[k].range, 0) \o FilledTextFrom(k + 1)

\* C16: for ranges that are sorted, do not overlap and lie within the text,
\* the filled ranges partition the document: the first starts at 0, each
\* starts where the one before it ends, the last ends at text.len(), none is
\* empty, every non-empty input range appears exactly once, to be wrapped,
\* and everything else is verbatim; the slices of the filled ranges,
\* concatenated, are the text.
C16_FilledRangesPartition ==
    pc = "filled" =>
        LET out == doc.filled
            n   == str_len(doc.text)
        IN  /\ out = <<>> <=> n = 0
            /\ out # <<>> => out[1].range.start = 0 /\ out[Len(out)].range.end = n
            /\ \A k \in 1..(Len(out) - 1) : out[k].range.end = out[k + 1].range.start
            /\ \A k \in 1..Len(out) : out[k].range.start < out[k].range.end
            /\ \A j \in 1..Len(doc.wrap_ranges) :
                 doc.wrap_ranges[j].start < doc.wrap_ranges[j].end
                     => Cardinality({k \in 1..Len(out) :
                                        out[k].range = doc.wrap_ranges[j]}) = 1
            /\ \A k \in 1..Len(out) :
                 out[k].verbatim <=>
                     ~\E j \in 1..Len(doc.wrap_ranges) : out[k].range = doc.wrap_ranges[j]
            /\ FilledTextFrom(1) = doc.text

\* the ranges of the test: text before, between and after the wrapped ranges
\* is verbatim
C16_Witness ==
    /\ pc = "filled"
    /\ doc.text = TextMoreText
    /\ Len(doc.filled) = 6
    /\ doc.filled[3] = [verbatim |-> TRUE, indent_spaces |-> 0,
                         range |-> [start |-> 6, end |-> 22]]
    /\ doc.filled[4] = [verbatim |-> FALSE, indent_spaces |-> 5,
                         range |-> [start |-> 22, end |-> 26]]
    /\ doc.filled[5] = [verbatim |-> TRUE, indent_spaces |-> 9,
                         range |-> [start |-> 26, end |-> 31]]

\* the offsets of the characters of the text that lie on the line of byte
\* offset b, before b
CharsBefore(b) ==
    LET pos(i) == str_len(SubSeq(doc.text, 1, i - 1))
        before == {i \in 1..Len(doc.text) : pos(i) < b}
    IN  {i \in before : \A j \in before : j >= i => doc.text[j] # "\n"}

\* C17: the indent of a range to be wrapped is the column its start is in:
\* the number of characters, each counted once, between the start of the
\* line that holds the start of the range and the start of the range; it is
\* never negative.
C17_IndentIsColumn ==
    pc = "filled" =>
        \A k \in 1..Len(doc.filled) :
            ~doc.filled[k].verbatim =>
                /\ doc.filled[k].indent_spaces >= 0
                /\ doc.filled[k].indent_spaces =
                       Cardinality(CharsBefore(doc.filled[k].range.start))

(***************************************************************************)
(* Specification SpecClassify: to_be_wrapped filters the events of a       *)
(* document, one event at a time, and collects the ranges of those it      *)
(* keeps.                                                                  *)
(***************************************************************************)
MaxEvents == 3

\* the strings of the Html and InlineHtml events, written in lexemes: the
\* delimiters of a comment, a directive and a tag are one token each
HtmlTexts ==
    { <<"<b>">>,
      <<"<b>", IGNORE_START, "\n">>,
      <<"<!--", IGNORE_START, "-->">>,
      <<"<!--", IGNORE_END, "-->">>,
      <<"<!--", PRETTIER_IGNORE_START, "-->", "\n">>,
      <<"<!--", IGNORE_START, PRETTIER_IGNORE_END, "-->">> }

Leaf(kind, text) == [kind |-> kind, tag |-> "", text |-> text]

LeafEvents ==
    {Leaf("Text", <<"a">>), Leaf("Rule", <<"-">>)}
    \cup {Leaf(kind, text) : kind \in {"Html", "InlineHtml"}, text \in HtmlTexts}

Start(tag) == [kind |-> "Start", tag |-> tag, text |-> <<>>]
End(tag) == [kind |-> "End", tag |-> tag, text |-> <<>>]

EventTags == {"Heading", "Emphasis", "Paragraph", "HtmlBlock"}

\* the balanced streams of n events, as the parser emits them for nested
\* elements
RECURSIVE BalancedEvents(_)
BalancedEvents(n) ==
    IF n = 0 THEN {<<>>}
    ELSE { <<leaf>> \o rest : leaf \in LeafEvents, rest \in BalancedEvents(n - 1) }
         \cup UNION { { <<Start(tag)>> \o inner \o <<End(tag)>> \o rest :
                           inner \in BalancedEvents(m),
                           rest \in BalancedEvents(n - 2 - m) } :
                       tag \in EventTags, m \in 0..(n - 2) }

\* streams of documents: a heading with emphasis, prose between two block
\* comments with directives, a comment with a directive inside a line, and
\* two documents with one directive inside and the other outside a block quote
ExampleEvents ==
    { <<Start("Heading"), Leaf("Text", <<"a">>), Start("Emphasis"),
        Leaf("Text", <<"a">>), End("Emphasis"), End("Heading")>>,
      <<Start("HtmlBlock"), Leaf("Html", <<"<!--", IGNORE_START, "-->", "\n">>),
        End("HtmlBlock"), Start("Paragraph"), Leaf("Text", <<"a">>), End("Paragraph"),
        Start("HtmlBlock"), Leaf("Html", <<"<!--", PRETTIER_IGNORE_END, "-->", "\n">>),
        End("HtmlBlock"), Start("Paragraph"), Leaf("Text", <<"a">>), End("Paragraph")>>,
      <<Start("Paragraph"), Leaf("Text", <<"a">>),
        Leaf("InlineHtml", <<"<!--", IGNORE_START, "-->">>), Leaf("Text", <<"a">>),
        End("Paragraph")>>,
      <<Start("HtmlBlock"), Leaf("Html", <<"<!--", IGNORE_START, "-->", "\n">>),
        End("HtmlBlock"), Start("BlockQuote"), Start("Paragraph"), Leaf("Text", <<"a">>),
        End("Paragraph"), Start("HtmlBlock"),
        Leaf("Html", <<"<!--", IGNORE_END, "-->", "\n">>), End("HtmlBlock"),
        End("BlockQuote")>>,
      <<Start("BlockQuote"), Start("HtmlBlock"),
        Leaf("Html", <<"<!--", IGNORE_START, "-->", "\n">>), End("HtmlBlock"),
        End("BlockQuote"), Start("HtmlBlock"),
        Leaf("Html", <<"<!--", IGNORE_END, "-->", "\n">>), End("HtmlBlock"),
        Start("Paragraph"), Leaf("Text", <<"a">>), End("Paragraph")>> }

\* the index of the End that closes the element open at index j with depth
\* further elements open inside it
RECURSIVE MatchingEnd(_, _, _)
MatchingEnd(events, j, depth) ==
    IF events[j].kind = "End"
    THEN IF depth = 0 THEN j ELSE MatchingEnd(events, j + 1, depth - 1)
    ELSE MatchingEnd(events, j + 1, IF events[j].kind = "Start" THEN depth + 1 ELSE depth)

\* the source text of the events from index k on
RECURSIVE TextFrom(_, _)
TextFrom(events, k) ==
    IF k > Len(events) THEN <<>> ELSE events[k].text \o TextFrom(events, k + 1)

\* the events with the byte ranges into_offset_iter gives them: an element
\* spans the events inside it
WithRanges(events) ==
    LET offset(k) == str_len(TextFrom(events, 1)) - str_len(TextFrom(events, k))
        start_of(k) == CHOOSE j \in 1..k :
                           events[j].kind = "Start" /\ MatchingEnd(events, j + 1, 0) = k
        range(k) ==
            IF events[k].kind = "Start"
            THEN [start |-> offset(k), end |-> offset(MatchingEnd(events, k + 1, 0))]
            ELSE IF events[k].kind = "End"
            THEN [start |-> offset(start_of(k)), end |-> offset(k)]
            ELSE [start |-> offset(k), end |-> offset(k + 1)]
    IN  [k \in 1..Len(events) |->
            [kind |-> events[k].kind, tag |-> events[k].tag, text |-> events[k].text,
             range |-> range(k)]]

InitClassify ==
    /\ pc = "events"
    /\ \E events \in UNION {BalancedEvents(n) : n \in 0..MaxEvents} \cup ExampleEvents :
         doc = [text |-> TextFrom(events, 1), keep_linebreaks |-> FALSE,
                events |-> WithRanges(events), i |-> 0, ignore |-> FALSE,
                verbatim_level |-> 0, kept |-> <<>>, out |-> <<>>]
    /\ detector = NoDetector
    /\ query = NoQuery
    /\ lb = IdleLb
    /\ wr = IdleWr

\* the next event passes through the two filters
FilterEvent ==
    /\ pc = "events"
    /\ doc.i < Len(doc.events)
    /\ LET event == doc.events[doc.i + 1]
           after == filter_event(event, doc.ignore, doc.verbatim_level, Whitespaces)
       IN  /\ doc' = [doc EXCEPT !.i = doc.i + 1,
                                  !.ignore = after.ignore,
                                  !.verbatim_level = after.verbatim_level,
                                  !.kept = IF after.keep THEN Append(doc.kept, doc.i + 1)
                                           ELSE doc.kept]
           /\ pc' = IF after.panic THEN "panicked" ELSE "events"
    /\ UNCHANGED <<detector, query, lb, wr>>

\* .map(|(_event, range)| range).collect()
CollectRanges ==
    /\ pc = "events"
    /\ doc.i = Len(doc.events)
    /\ doc' = [doc EXCEPT !.out = [k \in 1..Len(doc.kept) |-> doc.events[doc.kept[k]].range]]
    /\ pc' = "collected"
    /\ UNCHANGED <<detector, query, lb, wr>>

NextClassify == FilterEvent \/ CollectRanges

SpecClassify == InitClassify /\ [][NextClassify]_vars

(***************************************************************************)
(* Properties of to_be_wrapped                                             *)
(***************************************************************************)
\* the indices of the events whose ranges are emitted
Emitted == SeqSet(doc.kept)

\* the event at index k has passed through the filters
Filtered(k) == k \in 1..doc.i

KeepAsIsConstructs ==
    {"BlockQuote", "CodeBlock", "FootnoteDefinition", "Heading", "Image",
     "Table", "TableHead", "TableRow", "TableCell"}

\* the event at index k lies between the Start and the matching End of a
\* keep-as-is construct
InsideKeepAsIs(k) ==
    \E j \in 1..(k - 1) :
        /\ doc.events[j].kind = "Start"
        /\ doc.events[j].tag \in KeepAsIsConstructs
        /\ MatchingEnd(doc.events, j + 1, 0) > k

\* C18: no range emitted by to_be_wrapped belongs to an event between the
\* Start and the matching End of a keep-as-is construct, whatever kind of
\* event it is.
C18_NothingEmittedInsideKeepAsIs ==
    \A k \in Emitted : ~InsideKeepAsIs(k)

IsHtmlEvent(k) == doc.events[k].kind \in {"Html", "InlineHtml"}

\* the event at index k is HTML that starts with "<!--" and ends with "-->",
\* the linebreak that ends a line of block HTML aside
IsHtmlCommentEvent(k) ==
    LET s == doc.events[k].text
        line == IF s # <<>> /\ s[Len(s)] = "\n" THEN SubSeq(s, 1, Len(s) - 1) ELSE s
    IN  /\ IsHtmlEvent(k)
        /\ line # <<>>
        /\ line[1] = "<!--"
        /\ line[Len(line)] = "-->"

IsEndComment(k) ==
    /\ IsHtmlCommentEvent(k)
    /\ SeqSet(doc.events[k].text) \cap {IGNORE_END, PRETTIER_IGNORE_END} # {}

\* a comment that holds a start and an end directive ends a region
IsStartComment(k) ==
    /\ IsHtmlCommentEvent(k)
    /\ SeqSet(doc.events[k].text) \cap {IGNORE_START, PRETTIER_IGNORE_START} # {}
    /\ ~IsEndComment(k)

\* the event at index k lies in an ignore region: from a comment with a start
\* directive, inclusive, to the next comment with an end directive, exclusive
InIgnoreRegion(k) ==
    \E j \in 1..k :
        /\ IsStartComment(j)
        /\ \A m \in (j + 1)..k : ~IsEndComment(m)

\* the byte range of the event at index k contains a linebreak that is
\* classified as whitespace
ContainsLinebreak(k) ==
    \E b \in doc.events[k].range.start..(doc.events[k].range.end - 1) : IsLinebreakByte(b)

\* C19: outside ignore regions, an HTML event (block HTML, inline HTML or the
\* start of an HTML block) is emitted if and only if its byte range contains
\* no linebreak classified as whitespace; task-list markers, footnote
\* references, thematic breaks and math are never emitted.
C19_HtmlEmittedIffNoLinebreak ==
    \A k \in 1..doc.i :
        /\ ( /\ ~InIgnoreRegion(k)
             /\ \/ IsHtmlEvent(k)
                \/ doc.events[k].kind = "Start" /\ doc.events[k].tag = "HtmlBlock" )
           => (k \in Emitted <=> ~ContainsLinebreak(k))
        /\ doc.events[k].kind \in {"TaskListMarker", "FootnoteReference", "Rule",
                                   "InlineMath", "DisplayMath"}
           => k \notin Emitted

\* C20: every event of an ignore region contributes no range, whatever its
\* kind and the verbatim level; HTML that is not a comment neither starts nor
\* ends an ignore region.
C20_IgnoreRegion ==
    [][ \A k \in 1..Len(doc.events) :
            (pc = "events" /\ doc.i + 1 = k /\ doc'.i = k)
            => /\ InIgnoreRegion(k) => doc'.kept = doc.kept
               /\ (IsHtmlEvent(k) /\ ~IsHtmlCommentEvent(k)) => doc'.ignore = doc.ignore ]_vars

\* C21: the decrement of verbatim_level never underflows, so the panic
\* "tags should be balanced" is not reached for any balanced event stream.
C21_NoUnderflow ==
    pc # "panicked"

\* the first filter skips the event at index k: it lies between a block HTML
\* comment with a start directive, inclusive, and the next block HTML comment
\* with an end directive, exclusive
Skipped(k) ==
    \E j \in 1..k :
        /\ doc.events[j].kind = "Html" /\ IsStartComment(j)
        /\ \A m \in (j + 1)..k : ~(doc.events[m].kind = "Html" /\ IsEndComment(m))

\* the tags open when the event at index k is seen, among the keep-as-is
\* constructs and the transparent tags, whose Start was not skipped
OpenTags(k) ==
    {j \in 1..(k - 1) :
        /\ doc.events[j].kind = "Start"
        /\ doc.events[j].tag \in KeepAsIsConstructs \cup {"Emphasis", "Link", "Strikethrough", "Strong"}
        /\ ~Skipped(j)
        /\ MatchingEnd(doc.events, j + 1, 0) >= k}

WithoutDirectives ==
    \A k \in 1..Len(doc.events) : ~IsStartComment(k) /\ ~IsEndComment(k)

\* C26: when an event is seen, verbatim_level is the number of open
\* keep-as-is and transparent tags whose Start was not skipped, and a Text,
\* SoftBreak, HardBreak or Code event that is not skipped is emitted iff
\* verbatim_level is 0; without ignore directives verbatim_level is 0 after
\* the last event.
C26_VerbatimLevelCountsOpenTags ==
    [][ /\ \A k \in 1..Len(doc.events) :
              (pc = "events" /\ doc.i + 1 = k /\ doc'.i = k)
              => /\ doc.verbatim_level = Cardinality(OpenTags(k))
                 /\ ( /\ doc.events[k].kind \in {"Text", "SoftBreak", "HardBreak", "Code"}
                      /\ ~Skipped(k) )
                    => (k \in SeqSet(doc'.kept) <=> doc.verbatim_level = 0)
        /\ (pc' = "collected" /\ WithoutDirectives) => doc.verbatim_level = 0 ]_vars

\* the HTML snippets handed to process_html so far that are comments with a
\* directive
DirectiveComments ==
    {j \in 1..doc.i : doc.events[j].kind = "Html" /\ (IsStartComment(j) \/ IsEndComment(j))}

\* C30: the ignore flag is off initially; after any sequence of HTML snippets
\* it is on iff the last comment with a directive holds no end directive.
C30_IgnoreIsOneFlag ==
    doc.ignore = ( /\ DirectiveComments # {}
                   /\ LET last == CHOOSE j \in DirectiveComments :
                                      \A m \in DirectiveComments : m <= j
                      IN  ~IsEndComment(last) )

\* two start directives of different vocabularies, then one end directive
C30_Witness ==
    /\ doc.i = 3
    /\ \A j \in 1..2 : doc.events[j].kind = "Html" /\ IsStartComment(j)
    /\ doc.events[1].text # doc.events[2].text
    /\ doc.events[3].kind = "Html" /\ IsEndComment(3)
    /\ ~doc.ignore

(***************************************************************************)
(* Further properties of the greedy wrapper                                *)
(***************************************************************************)
\* C27: with max_width > 0 every output line that holds more than one word
\* has at most max_width characters, counted from the column the line starts
\* in (the first line of sentence 0 starts after the indent); only a line of
\* a single word may be longer.
C27_WidthBound ==
    pc = "wrapped" /\ wr.max_width # <<>> /\ wr.max_width # <<0>> =>
        \A k \in 1..Len(wr.lines) :
            Len(LineWords(k)) > 1 =>
                Len(wr.lines[k])
                + (IF k = 1 /\ wr.sentence_idx = 0 THEN Len(wr.indent) ELSE 0)
                    <= wr.max_width[1]

\* the documented sentence at width 11: the line "  that long" holds two
\* words and is exactly 11 characters long
C27_Witness ==
    /\ pc = "wrapped"
    /\ wr.sentence = NotThatLongSentence
    /\ wr.max_width = <<11>>
    /\ Len(wr.lines) >= 4
    /\ Len(LineWords(4)) = 2
    /\ Len(wr.lines[4]) = 11

\* C28: for an indent made of spaces, the output lines joined and split on
\* whitespace are the words of the sentence in order; no line is empty
\* unless the sentence has no word; the words of a line are separated by
\* exactly one space.
C28_WordsPreserved ==
    pc = "wrapped" /\ SeqSet(wr.indent) \subseteq {" "} =>
        /\ detector_split_ws(detector.whitespace, JoinWords(wr.lines, <<"\n">>), <<>>)
               = SentenceWords
        /\ \A k \in 1..Len(wr.lines) :
               /\ SentenceWords # <<>> => wr.lines[k] # <<>>
               /\ \E n \in 0..Len(wr.indent) :
                      wr.lines[k] =
                          [i \in 1..n |-> " "]
                          \o JoinWords(detector_split_ws(detector.whitespace, wr.lines[k], <<>>),
                                       <<" ">>)

\* two spaces between the words of the sentence, one word per line at width 1
C28_Witness ==
    /\ pc = "wrapped"
    /\ wr.sentence = <<"a", " ", " ", "a">>
    /\ wr.sentence_idx = 0
    /\ wr.indent = <<" ", " ">>
    /\ wr.max_width = <<1>>
    /\ wr.lines = << <<"a">>, <<" ", " ", "a">> >>

(***************************************************************************)
(* Specification SpecFormat: the line breaker and the greedy wrapper       *)
(* format a text as add_linebreaks_and_wrap formats an Indent(n) range,    *)
(* and then format what they returned.                                     *)
(***************************************************************************)
MaxFormatLen == 4

InitFormat ==
    /\ pc = "text"
    /\ doc \in [text : SeqsUpTo({"a", ".", " ", "\n", "nbsp"}, MaxFormatLen), n : {0, 2},
                max_width : {<<>>, <<2>>}, once : {<<>>}, twice : {<<>>}]
    /\ \E cfg \in BreakCfg : detector = BreakDetector_new(<<>>, <<>>, FALSE, <<".">>, cfg)
    /\ query = NoQuery
    /\ lb = IdleLb
    /\ wr = IdleWr

FormatRange ==
    /\ pc = "text"
    /\ doc' = [doc EXCEPT !.once =
                  range_output([wrap |-> <<"Indent", doc.n>>,
                                range |-> [start |-> 0, end |-> str_len(doc.text)]],
                               doc.max_width, detector, doc.text)]
    /\ pc' = "formatted"
    /\ UNCHANGED <<detector, query, lb, wr>>

FormatAgain ==
    /\ pc = "formatted"
    /\ doc' = [doc EXCEPT !.twice =
                  range_output([wrap |-> <<"Indent", doc.n>>,
                                range |-> [start |-> 0, end |-> str_len(doc.once)]],
                               doc.max_width, detector, doc.once)]
    /\ pc' = "formatted again"
    /\ UNCHANGED <<detector, query, lb, wr>>

NextFormat == FormatRange \/ FormatAgain

SpecFormat == InitFormat /\ [][NextFormat]_vars

\* C29: formatting a wrappable range is idempotent: the line breaker followed
\* by the greedy wrapper, applied to their own output with the same indent,
\* width and detector, return that output unchanged.
C29_FormattingIsIdempotent ==
    pc = "formatted again" => doc.twice = doc.once

(***************************************************************************)
(* Specification SpecMain: main processes the markdown files in parallel,  *)
(* process_file writes a file or leaves it, the results are reduced in any *)
(* order and grouping, and the exit outcome is derived.                    *)
(***************************************************************************)
MaxFiles == 2

\* how often the reduction may take its identity
MaxIdentities == 1

\* enum OpMode
OpModes == {"Both", "Check", "Format"}

\* the match on mode in process_file with a write in every mode
shall_write_in_every_mode(mode, processed, text) == processed # text

\* the match on mode in process_file: whether the file is written
shall_write(mode, processed, text) ==
    IF mode \in {"Format", "Both"} THEN processed # text ELSE FALSE

\* the closure of reduce passing on whether either file is unchanged
reduce_op_either(a, b) ==
    IF a = <<"Err">> THEN a
    ELSE IF b = <<"Err">> THEN b
    ELSE <<"Ok", a[2] \/ b[2]>>

\* the closure given to reduce
reduce_op(a, b) ==
    IF a = <<"Err">> THEN a
    ELSE IF b = <<"Err">> THEN b
    ELSE <<"Ok", a[2] /\ b[2]>>

\* the match on unchanged at the end of main
exit_of(unchanged, mode) ==
    IF unchanged = <<"Ok", TRUE>> THEN "success"
    ELSE IF unchanged = <<"Ok", FALSE>>
    THEN IF mode = "Format" THEN "success" ELSE "failure"
    ELSE "failure"

InitMain ==
    /\ pc = "processing"
    /\ \E n \in 0..MaxFiles, mode \in OpModes :
         \E texts \in [1..n -> {"text", "other text"}] :
           doc = [mode |-> mode,
                  files |-> [f \in 1..n |->
                                [text |-> texts[f], disk |-> texts[f], done |-> FALSE,
                                 processed |-> <<>>, failed |-> FALSE, writes |-> 0]],
                  pool |-> [r \in {<<"Ok", TRUE>>, <<"Ok", FALSE>>, <<"Err">>} |-> 0],
                  identities |-> 0,
                  exit |-> "none"]
    /\ detector = NoDetector
    /\ query = NoQuery
    /\ lb = IdleLb
    /\ wr = IdleWr

\* one file goes through process_file and the closure of map: reading,
\* configuring or processing fails, or gives the processed content; a write
\* succeeds or fails
ProcessFile ==
    /\ pc = "processing"
    /\ \E f \in DOMAIN doc.files :
         /\ ~doc.files[f].done
         /\ \E outcome \in {<<"Err">>} \cup {<<"Ok", c>> : c \in {"text", "other text"}},
               write_ok \in BOOLEAN :
              LET file    == doc.files[f]
                  writing == outcome # <<"Err">> /\ shall_write(doc.mode, outcome[2], file.text)
                  failed  == outcome = <<"Err">> \/ (writing /\ ~write_ok)
                  result  == IF failed THEN <<"Err">> ELSE <<"Ok", outcome[2] = file.text>>
              IN  doc' = [doc EXCEPT
                            !.files[f] =
                                [text |-> file.text,
                                 disk |-> IF writing /\ write_ok THEN outcome[2] ELSE file.disk,
                                 done |-> TRUE,
                                 processed |-> IF outcome = <<"Err">> THEN <<>> ELSE <<outcome[2]>>,
                                 failed |-> failed,
                                 writes |-> IF writing /\ write_ok THEN 1 ELSE 0],
                            !.pool[result] = @ + 1]
    /\ UNCHANGED <<pc, detector, query, lb, wr>>

\* the reduction combines two results it holds, in either order
Combine ==
    /\ pc = "processing"
    /\ \E a \in DOMAIN doc.pool, b \in DOMAIN doc.pool :
         /\ doc.pool[a] > 0
         /\ doc.pool[b] > (IF a = b THEN 1 ELSE 0)
         /\ LET taken == [doc.pool EXCEPT ![a] = @ - 1, ![b] = @ - 1]
            IN  doc' = [doc EXCEPT !.pool = [taken EXCEPT ![reduce_op(a, b)] = @ + 1]]
    /\ UNCHANGED <<pc, detector, query, lb, wr>>

\* the reduction takes its identity, Ok(true), for one more group
TakeIdentity ==
    /\ pc = "processing"
    /\ doc.identities < MaxIdentities
    /\ doc' = [doc EXCEPT !.identities = @ + 1, !.pool[<<"Ok", TRUE>>] = @ + 1]
    /\ UNCHANGED <<pc, detector, query, lb, wr>>

\* every file is processed and the reduction has one result left, or none
\* and takes the identity
Exit ==
    /\ pc = "processing"
    /\ \A f \in DOMAIN doc.files : doc.files[f].done
    /\ LET left == {r \in DOMAIN doc.pool : doc.pool[r] > 0}
       IN  /\ \A r \in left : doc.pool[r] = 1
           /\ Cardinality(left) <= 1
           /\ LET unchanged == IF left = {} THEN <<"Ok", TRUE>> ELSE CHOOSE r \in left : TRUE
              IN  doc' = [doc EXCEPT !.exit = exit_of(unchanged, doc.mode)]
    /\ pc' = "exited"
    /\ UNCHANGED <<detector, query, lb, wr>>

NextMain == ProcessFile \/ Combine \/ TakeIdentity \/ Exit

SpecMain == InitMain /\ [][NextMain]_vars

\* C24: the run fails if at least one file failed; otherwise it succeeds if
\* every file is unchanged; otherwise it succeeds in mode "format" and fails
\* in modes "check" and "both", whatever the order and grouping in which the
\* results were combined.
C24_ExitOutcome ==
    pc = "exited" =>
        LET failed  == \E f \in DOMAIN doc.files : doc.files[f].failed
            changed == \E f \in DOMAIN doc.files :
                           doc.files[f].processed # <<doc.files[f].text>>
        IN  doc.exit = IF failed THEN "failure"
                       ELSE IF ~changed THEN "success"
                       ELSE IF doc.mode = "Format" THEN "success"
                       ELSE "failure"

\* an unchanged and a changed file in mode "both", combined after the
\* identity was taken
C24_Witness ==
    /\ pc = "exited"
    /\ doc.mode = "Both"
    /\ doc.identities = 1
    /\ Len(doc.files) = 2
    /\ ~doc.files[1].failed /\ doc.files[1].processed = <<doc.files[1].text>>
    /\ ~doc.files[2].failed /\ doc.files[2].processed # <<doc.files[2].text>>
    /\ doc.exit = "failure"

\* C25: process_file leaves the file as it is in mode "check"; in modes
\* "format" and "both" it writes the file iff the processed content differs
\* from the original, and writes the processed content; when processing
\* fails nothing is written.
C25_FileWrittenIffChanged ==
    \A f \in DOMAIN doc.files :
        LET file == doc.files[f]
        IN  file.done =>
              /\ doc.mode = "Check" => file.writes = 0 /\ file.disk = file.text
              /\ file.processed = <<>> => file.writes = 0 /\ file.disk = file.text
              /\ (doc.mode # "Check" /\ ~file.failed) =>
                    /\ file.writes = 1 <=> file.processed # <<file.text>>
                    /\ file.disk = file.processed[1]
              /\ file.writes = 0 => file.disk = file.text

\* a file whose processed content differs is written in mode "format"
C25_Witness ==
    /\ doc.mode = "Format"
    /\ Len(doc.files) >= 1
    /\ doc.files[1].done
    /\ doc.files[1].text = "text"
    /\ doc.files[1].processed = <<"other text">>
    /\ doc.files[1].writes = 1
    /\ doc.files[1].disk = "other text"

(***************************************************************************)
(* Specification SpecCfg: merge_configs merges the config files of a       *)
(* document in their order and resolves every option against the command  *)
(* line.  An option is a field of CfgFile; two of the twelve are modelled, *)
(* one that PerFileCfg holds as it is and one that it holds as an Option.  *)
(***************************************************************************)
MaxConfigs == 2

CfgFields == {"max_width", "link_actions"}

\* the values an option can take
ValuesOf(field) == IF field = "link_actions" THEN {"None", "Both"} ELSE {"10", "80"}

\* the default_value of the argument, parsed as ValueWOrigin::Default
DefaultOf(field) == IF field = "link_actions" THEN "None" ELSE "80"

\* ValueWOrigin::resolve
resolve(self, other) ==
    IF self[1] = "Parsed" THEN self[2]
    ELSE IF other # <<>> THEN other[1] ELSE self[2]

\* merge_with taking every field the other config defines
merge_with_overwriting(self, other) ==
    LET merged == [f \in CfgFields |-> IF other[f] # <<>> THEN other[f] ELSE self[f]]
    IN  [cfg |-> merged, fully_defined |-> \A f \in CfgFields : merged[f] # <<>>]

\* CfgFile::merge_with: the config afterwards and the returned flag
merge_with(self, other) ==
    LET merged == [f \in CfgFields |-> IF self[f] = <<>> THEN other[f] ELSE self[f]]
    IN  [cfg |-> merged, fully_defined |-> \A f \in CfgFields : merged[f] # <<>>]

\* the PerFileCfg that merge_configs builds from the merged config
per_file_cfg(cli, merged) ==
    [max_width |-> resolve(cli.max_width, merged.max_width),
     link_actions |-> LET resolved == resolve(cli.link_actions, merged.link_actions)
                      IN  IF resolved = "None" THEN <<>> ELSE <<resolved>>]

InitCfg ==
    /\ pc = "merging"
    /\ \E n \in 0..MaxConfigs :
         \E files \in [1..n -> [CfgFields -> {<<>>, <<"10">>, <<"80">>, <<"None">>, <<"Both">>}]],
            cli \in [CfgFields -> {"Default", "Parsed"} \X {"10", "80", "None", "Both"}] :
           /\ \A k \in 1..n, f \in CfgFields : SeqSet(files[k][f]) \subseteq ValuesOf(f)
           /\ \A f \in CfgFields :
                 cli[f][2] \in (IF cli[f][1] = "Default" THEN {DefaultOf(f)} ELSE ValuesOf(f))
           /\ doc = [cli |-> cli, files |-> files, i |-> 0,
                     merged |-> [f \in CfgFields |-> <<>>], fully_defined |-> FALSE,
                     result |-> <<>>]
    /\ detector = NoDetector
    /\ query = NoQuery
    /\ lb = IdleLb
    /\ wr = IdleWr

\* one iteration of the loop of merge_configs; the loop ends at the break or
\* after the last config
MergeWith ==
    /\ pc = "merging"
    /\ doc.i < Len(doc.files)
    /\ LET after == merge_with(doc.merged, doc.files[doc.i + 1])
       IN  /\ doc' = [doc EXCEPT !.i = @ + 1, !.merged = after.cfg,
                                  !.fully_defined = after.fully_defined]
           /\ pc' = IF after.fully_defined \/ doc.i + 1 = Len(doc.files)
                    THEN "merged" ELSE "merging"
    /\ UNCHANGED <<detector, query, lb, wr>>

\* a further config is merged into a config that is fully defined
MergeIntoFullyDefined ==
    /\ pc = "merged"
    /\ doc.fully_defined
    /\ doc.i < Len(doc.files)
    /\ LET after == merge_with(doc.merged, doc.files[doc.i + 1])
       IN  doc' = [doc EXCEPT !.i = @ + 1, !.merged = after.cfg,
                              !.fully_defined = after.fully_defined]
    /\ UNCHANGED <<pc, detector, query, lb, wr>>

\* every option is resolved against the command line
ResolveOptions ==
    /\ pc = "merged" \/ (pc = "merging" /\ doc.files = <<>>)
    /\ doc' = [doc EXCEPT !.result = <<per_file_cfg(doc.cli, doc.merged)>>]
    /\ pc' = "resolved"
    /\ UNCHANGED <<detector, query, lb, wr>>

NextCfg == MergeWith \/ MergeIntoFullyDefined \/ ResolveOptions

SpecCfg == InitCfg /\ [][NextCfg]_vars

\* the value that takes precedence for field: the one of the command line,
\* else the one of the first config that defines the field, else the default
EffectiveValue(field) ==
    LET defining == {k \in 1..Len(doc.files) : doc.files[k][field] # <<>>}
    IN  IF doc.cli[field][1] = "Parsed" THEN doc.cli[field][2]
        ELSE IF defining = {} THEN DefaultOf(field)
        ELSE doc.files[CHOOSE k \in defining : \A m \in defining : k <= m][field][1]

MaxBlocks == 2

\* str::split_inclusive('\n'): the lines, each with its linebreak
split_inclusive(s) ==
    LET rs == line_ranges_from(s, 0, 0)
    IN  [k \in 1..Len(rs) |-> SubSeq(s, rs[k].start + 1, rs[k].end)]

\* BlockQuotes::strip_prefix
strip_prefix(text, indent) ==
    LET lines == split_inclusive(text)
        stripped(k) ==
            LET t == IF k = 1 THEN lines[k] ELSE SubSeq(lines[k], indent + 1, Len(lines[k]))
            IN  IF t # <<>> /\ Head(t) = ">"
                THEN IF Tail(t) # <<>> /\ Head(Tail(t)) = " " THEN Tail(Tail(t)) ELSE Tail(t)
                ELSE t
    IN  join([k \in 1..Len(lines) |-> stripped(k)], <<>>)

\* BlockQuotes::add_prefix
add_prefix(text, indent) ==
    LET lines == split_inclusive(text)
        prefixed(k) ==
            (IF k = 1 THEN <<>> ELSE build_indent(indent))
            \o (IF str_len(lines[k]) = 1 THEN <<">">> ELSE <<">", " ">>)
            \o lines[k]
    IN  join([k \in 1..Len(lines) |-> prefixed(k)], <<>>)

\* BlockQuotes::new over the lines of the text: Matches((0, quote)) for
\* every run of lines that begin with a marker, NoMatch for what lies between
RECURSIVE BlockQuotes_new(_)
BlockQuotes_new(lines) ==
    IF lines = <<>> THEN <<>>
    ELSE LET rest == BlockQuotes_new(Tail(lines))
             this == [matches |-> Head(Head(lines)) = ">", indent |-> 0, text |-> Head(lines)]
         IN  IF rest # <<>> /\ rest[1].matches = this.matches
             THEN <<[this EXCEPT !.text = @ \o rest[1].text]>> \o Tail(rest)
             ELSE <<this>> \o rest

RECURSIVE Processor_process(_, _, _)
RECURSIVE apply_to_matches_and_join(_, _, _)

\* BlockQuotes::apply_to_matches_and_join with the closure of
\* Processor::process, |t, indent| self.process(t, indent + width_reduction)
apply_to_matches_and_join(self, ranges, width_reduction) ==
    IF ranges = <<>> THEN <<>>
    ELSE LET el == Head(ranges)
         IN  (IF el.matches
              THEN add_prefix(Processor_process(self, strip_prefix(el.text, el.indent),
                                                el.indent + 2 + width_reduction),
                              el.indent)
              ELSE el.text)
             \o apply_to_matches_and_join(self, Tail(ranges), width_reduction)

\* Processor::process
Processor_process(self, text, width_reduction) ==
    LET quoted == IF self.format_block_quotes
                  THEN apply_to_matches_and_join(self, BlockQuotes_new(split_inclusive(text)),
                                                 width_reduction)
                  ELSE text
        ends_on_linebreak == quoted # <<>> /\ quoted[Len(quoted)] = "\n"
        parsed == SelectSeq([k \in 1..Len(quoted) |-> [start |-> k - 1, end |-> k]],
                            LAMBDA r : /\ quoted[r.end] = "a"
                                       /\ (r.start = 0 \/ quoted[r.start] = "\n"))
        ranges == fill_markdown_ranges(parsed, quoted)
        filled == [k \in 1..Len(ranges) |->
                      [wrap |-> IF ranges[k].verbatim THEN <<"Verbatim">>
                                ELSE <<"Indent", ranges[k].indent_spaces>>,
                       range |-> ranges[k].range]]
        width == IF self.max_width = <<>> THEN <<>>
                 ELSE IF self.max_width[1] >= width_reduction
                      THEN <<self.max_width[1] - width_reduction>>
                      ELSE self.max_width
        formatted == add_linebreaks_and_wrap(filled, width, self.detector, quoted)
        file_end == IF ~(formatted # <<>> /\ formatted[Len(formatted)] = "\n")
                       /\ ends_on_linebreak
                    THEN <<"\n">> ELSE <<>>
    IN  formatted \o file_end

InitProcess ==
    /\ pc = "text"
    /\ \E blocks \in SeqsUpTo({<<"a">>, <<">", " ", "a">>, <<">", " ", "a", "\n", ">">>,
                              <<">", ">", " ", "a">>}, MaxBlocks),
          ending \in {<<>>, <<"\n">>, <<"\n", "\n">>, <<" ", "\n">>, <<" ">>},
          format_block_quotes \in BOOLEAN, max_width \in {<<>>, <<3>>} :
         doc = [text |-> join(blocks, <<"\n", "\n">>) \o ending,
                format_block_quotes |-> format_block_quotes,
                max_width |-> max_width,
                result |-> <<>>]
    /\ detector = BreakDetector_new(<<>>, <<>>, FALSE, <<".">>, DefaultCfg)
    /\ query = NoQuery
    /\ lb = IdleLb
    /\ wr = IdleWr

ProcessText ==
    /\ pc = "text"
    /\ doc' = [doc EXCEPT !.result =
                  Processor_process([format_block_quotes |-> doc.format_block_quotes,
                                     detector |-> detector, max_width |-> doc.max_width],
                                    doc.text, 0)]
    /\ pc' = "processed"
    /\ UNCHANGED <<detector, query, lb, wr>>

SpecProcess == InitProcess /\ [][ProcessText]_vars

\* C22: the result of Processor::process ends with a linebreak exactly when
\* the text did; when it does, one linebreak follows a result without
\* trailing whitespace, and when it does not, the result has no trailing
\* whitespace.
C22_TrailingNewlineRestored ==
    pc = "processed" =>
        LET ended == doc.text # <<>> /\ doc.text[Len(doc.text)] = "\n"
            ends  == doc.result # <<>> /\ doc.result[Len(doc.result)] = "\n"
        IN  /\ ends <=> ended
            /\ ends => /\ trim_end(doc.result) \o <<"\n">> = doc.result
            /\ ~ends => trim_end(doc.result) = doc.result

=============================================================================
